---- MODULE Spec2Model ----
(***************************************************************************)
(* Task-graph scheduler and agent runtime of the orchestrator example:     *)
(* the Redis-backed store (orchestrator/cache.py), the domain model        *)
(* (orchestrator/models.py) and the agent work cycle                       *)
(* (orchestrator/runtime.py).                                              *)
(*                                                                         *)
(* Time is kept relative to "now" and counted in units of lease_ttl: a     *)
(* lock carries its remaining TTL and a task state carries                 *)
(* lease_expires - now.  Tick lets one unit of time pass.  Every store     *)
(* call is one atomic step (Redis executes commands one at a time); the    *)
(* agent steps are cut at the oracle calls and at the lock commands, which *)
(* is where other processes interleave.  SpecDag also cuts the task        *)
(* synthesis calls and _elevate_task at their Redis commands.              *)
(***************************************************************************)
EXTENDS Integers, Sequences, FiniteSets, TLC

VARIABLES
    dagNodes,       \* dag:<goal>:nodes   goal -> nodes in hash insertion order
    dagDeps,        \* dag:<goal>:deps    goal -> (node id -> set of dependency ids)
    task,           \* task:<id>          id -> stored state hash (serialized fields)
    lock,           \* task:<id>:lock     id -> [owner, ttl] (key with remaining TTL)
    pc,             \* agent -> position in AgentRuntime._run_cycle
    ready_task_ids, \* agent -> list returned by list_ready_tasks in this cycle
    ready_nodes,    \* agent -> ids of the eligible nodes offered to the oracle
    node,           \* agent -> the TaskNode fetched for the selected task
    resume_reported, \* Orchestrator._resume_reported_goals
    polls,          \* heartbeat polls so far that found a directive to apply
    paused,         \* agent -> AgentRuntime._paused
    spending_cap_until, \* goal:<goal>:spending_cap_until  goal -> time left (0: no key)
    agent_heartbeat, \* agent:<name>:heartbeat  agent -> remaining TTL (0: no key)
    last_toggle,    \* agent -> the last PAUSE/RESUME directive applied to it so far
    elevate_dag,    \* agent -> the DAG _elevate_task has read and not yet written
    creating,       \* agent -> the node create_*_task is writing, and its target
    cap_until,      \* agent -> time left to the deadline its _on_spending_cap publishes
    active,         \* agent -> AgentRuntime._active
    cycles,         \* agent -> iterations of the loop in AgentRuntime.run so far
    registration,   \* agent:<name>:registration  agent -> whether the key exists
    memory_snapshot, \* agent:<name>:memory  agent -> whether run() stored its final snapshot
    spawned,        \* Orchestrator._spawned  agent name -> remembered PID
    spawn_calls,    \* agent name -> [pid, parent_pid] of every spawn_agent call, in order
    reconciles,     \* reconcile cycles of the coordinator so far
    coordinator,    \* "running", or "raised" once an error has left Orchestrator.run
    goal_agents,    \* the descriptors _ensure_goal_state planned the goal with
    oracle_dag,     \* the DAG create_goal_dag returned to _ensure_goal_state
    planned_dag,    \* the DAG _apply_role_workflow made of it
    oracle_pc,      \* position of one _invoke_json_with_retries call
    json_attempt,   \* its loop variable attempt (0 before the call)
    current_prompt, \* the prompt its next _invoke is given
    launches,       \* provider processes _invoke has started in this call
    last_raw,       \* raw, the last stdout _invoke returned to it
    json_result,    \* the payload it returned
    cap_message,    \* the reset time in the spending-cap text of the last failed launch
    local_now,      \* the local clock _seconds_until_local_reset_from_message read
    wait_seconds    \* what it returned: << >> for None, else <<wait>> in half seconds

\* the bookkeeping of AgentRuntime.run
loop == <<active, cycles, registration, memory_snapshot>>

\* the state of the coordinator process and of the supervisor it spawns through
coord == <<spawned, spawn_calls, reconciles, coordinator, goal_agents, oracle_dag, planned_dag>>

\* the state of one JSON call of ClaudeCLIClient
llm == <<oracle_pc, json_attempt, current_prompt, launches, last_raw, json_result,
         cap_message, local_now, wait_seconds>>

\* the state outside the work cycle and its store calls
outer == <<loop, coord, llm>>

\* the control state of the agent loop and of the multi-command store calls
ctl == <<paused, spending_cap_until, agent_heartbeat, last_toggle, elevate_dag, creating,
         cap_until, outer>>

vars == <<dagNodes, dagDeps, task, lock, pc, ready_task_ids, ready_nodes, node,
          resume_reported, polls, ctl>>

-----------------------------------------------------------------------------
(* Bounds of the model *)

\* nodes that failures may add to a goal's DAG in Spec before the oracle stops
\* failing tasks in the ways that synthesize one
MaxSynth == 0

\* heartbeat polls of SpecDirectives that find a directive in the file
MaxPolls == 1

\* highest node priority of the DAGs of SpecReady
MaxPriority == 1

\* the longest spending-cap backoff the provider asks for, in units of lease_ttl
MaxCapWait == 1

\* the max_cycles handed to AgentRuntime.run
MaxCycles == 2

\* reconcile cycles of the coordinator
MaxReconciles == 3

\* provider processes one JSON call may start before the provider stops
\* answering with a spending cap
MaxLaunches == 4

\* max_attempts of _invoke_json_with_retries
MaxAttempts == 3

\* timedelta(days=1) in half seconds, the unit of the local clock
HalfSecondsPerDay == 172800

\* DEFAULT_LEASE_TTL, the unit of time of the model
LeaseTTL == 1

-----------------------------------------------------------------------------
(* models.py: TaskStatus *)

READY == "ready"
CLAIMED == "claimed"
RUNNING == "running"
BLOCKED == "blocked"
DEV_DONE == "dev_done"
QA_FAILED == "qa_failed"
QA_PASSED == "qa_passed"
INTEGRATED == "integrated"
DONE == "done"
FAILED == "failed"

TaskStatus == {READY, CLAIMED, RUNNING, BLOCKED, DEV_DONE, QA_FAILED, QA_PASSED,
               INTEGRATED, DONE, FAILED}

\* Python None for the string-valued optionals
None == "None"
\* Python None for lease_expires (otherwise lease_expires - now, floored at 0)
NoLease == -1
\* no _on_spending_cap call of the agent is under way
NoUntil == -1

NoState == [missing |-> TRUE]
NoNode == [missing |-> TRUE]
NoDag == [missing |-> TRUE]
NoPrompt == [missing |-> TRUE]
NoRaw == [missing |-> TRUE]
NoPayload == [missing |-> TRUE]
NoClock == [missing |-> TRUE]
\* a text _RESET_TIME_PATTERN does not match
NoResetTime == [missing |-> TRUE]

\* TaskState(status=...) with the field defaults of the pydantic model
TaskState(status) ==
    [status |-> status, owner |-> None, lease_expires |-> NoLease,
     progress |-> None, artifacts |-> <<>>, last_error |-> None]

\* TaskState.as_running
as_running(state, owner, lease_expires) ==
    [state EXCEPT !.status = RUNNING, !.owner = owner, !.lease_expires = lease_expires]

\* TaskNode(id, priority, metadata); title and expected_artifacts carry no behaviour
TaskNode(id, priority, metadata) ==
    [id |-> id, priority |-> priority, metadata |-> metadata]

\* dict.get(key, default) on node.metadata
MetaGet(n, key, default) ==
    IF key \in DOMAIN n.metadata THEN n.metadata[key] ELSE default

\* DagModel.dependencies_for
dependencies_for(dag, node_id) ==
    {e[1] : e \in {x \in dag.edges : x[2] = node_id}}

-----------------------------------------------------------------------------
(* The agents of the goal *)

Goals == {"g1"}
Agents == {"a1", "a2"}

\* AgentRuntime.agent_role (agent_role or agent_name)
agent_role(a) == IF a = "a1" THEN "features-dev" ELSE "qa-dev"

\* AgentRuntime.goal_id
goal_id(a) == "g1"

-----------------------------------------------------------------------------
(* cache.py: state (de)serialization *)

\* RedisStore._serialize_state: None fields are left out of the hash; the list
\* is JSON-encoded, every other value is written as is ("" when falsy)
serialize_state(state) ==
    LET keys == {"status", "artifacts"}
                \cup (IF state.owner # None THEN {"owner"} ELSE {})
                \cup (IF state.lease_expires # NoLease THEN {"lease_expires"} ELSE {})
                \cup (IF state.progress # None THEN {"progress"} ELSE {})
                \cup (IF state.last_error # None THEN {"last_error"} ELSE {})
    IN [k \in keys |-> state[k]]

\* RedisStore._deserialize_state: absent keys take the model defaults, and an
\* empty owner/progress/last_error string reads back as None
deserialize_state(raw) ==
    LET str(k) == IF k \in DOMAIN raw /\ raw[k] # "" THEN raw[k] ELSE None
    IN [status |-> raw["status"],
        owner |-> str("owner"),
        lease_expires |-> IF "lease_expires" \in DOMAIN raw THEN raw["lease_expires"]
                          ELSE NoLease,
        progress |-> str("progress"),
        artifacts |-> IF "artifacts" \in DOMAIN raw THEN raw["artifacts"] ELSE <<>>,
        last_error |-> str("last_error")]

\* RedisStore.get_task_state on a task map
get_task_state(tk, task_id) ==
    IF task_id \in DOMAIN tk THEN deserialize_state(tk[task_id]) ELSE NoState

\* RedisStore.update_task_state on a task map: delete the hash, then write it
update_task_state(tk, task_id, state) ==
    [k \in DOMAIN tk \cup {task_id} |->
        IF k = task_id THEN serialize_state(state) ELSE tk[k]]

-----------------------------------------------------------------------------
(* cache.py: DAG persistence *)

NodeIds(nodes) == {nodes[i].id : i \in 1..Len(nodes)}

\* HSET on the nodes hash: an existing field keeps its place, a new one is appended
HSetNode(nodes, n) ==
    IF n.id \in NodeIds(nodes)
    THEN [i \in 1..Len(nodes) |-> IF nodes[i].id = n.id THEN n ELSE nodes[i]]
    ELSE Append(nodes, n)

\* RedisStore.get_task_node on a nodes hash
get_task_node(nodes, task_id) ==
    IF task_id \in NodeIds(nodes)
    THEN nodes[CHOOSE i \in 1..Len(nodes) : nodes[i].id = task_id]
    ELSE NoNode

\* a read that finds no DAG for any goal
read_dag_none(g) == NoDag

\* RedisStore.read_dag
read_dag(g) ==
    IF dagNodes[g] = <<>> THEN NoDag
    ELSE [goal_id |-> g, nodes |-> dagNodes[g],
          edges |-> UNION {{<<dep, id>> : dep \in dagDeps[g][id]} : id \in DOMAIN dagDeps[g]}]

\* the task hashes after RedisStore.write_dag: HSET with a mapping merges the
\* fields of the fresh state into whatever hash the key already holds
write_dag_task(tk, dag) ==
    LET ids == NodeIds(dag.nodes)
        fresh(id) == serialize_state(TaskState(
                        IF dependencies_for(dag, id) = {} THEN READY ELSE BLOCKED))
    IN [k \in DOMAIN tk \cup ids |->
          IF k \in ids
          THEN IF k \in DOMAIN tk
               THEN [f \in DOMAIN tk[k] \cup DOMAIN fresh(k) |->
                       IF f \in DOMAIN fresh(k) THEN fresh(k)[f] ELSE tk[k][f]]
               ELSE fresh(k)
          ELSE tk[k]]

\* the dependency hash after RedisStore.write_dag
write_dag_deps(dag) ==
    [id \in NodeIds(dag.nodes) |-> dependencies_for(dag, id)]

-----------------------------------------------------------------------------
(* cache.py: locks *)

\* RedisStore.lock_owner on a lock map
lock_owner(lk, task_id) ==
    IF task_id \in DOMAIN lk THEN lk[task_id].owner ELSE None

\* SET key value NX PX ttl: the lock map after the command
set_nx(lk, task_id, agent_name, ttl) ==
    IF task_id \in DOMAIN lk THEN lk
    ELSE [k \in DOMAIN lk \cup {task_id} |->
            IF k = task_id THEN [owner |-> agent_name, ttl |-> ttl] ELSE lk[k]]

\* a plain SET PX in place of SET NX PX: the caller always wins the key
acquire_lock_overwriting(lk, task_id, agent_name, ttl) ==
    [acquired |-> TRUE,
     lock |-> [k \in DOMAIN lk \cup {task_id} |->
                 IF k = task_id THEN [owner |-> agent_name, ttl |-> ttl] ELSE lk[k]]]

\* RedisStore.acquire_lock: the boolean it returns and the lock map it leaves
acquire_lock(lk, task_id, agent_name, ttl) ==
    [acquired |-> task_id \notin DOMAIN lk, lock |-> set_nx(lk, task_id, agent_name, ttl)]

\* a DEL that leaves the key in place
del_lock_noop(lk, task_id) == lk

\* DEL on the lock key
del_lock(lk, task_id) == [k \in DOMAIN lk \ {task_id} |-> lk[k]]

\* a release that drops the key whoever owns it
release_lock_any_owner(lk, task_id, agent_name) == del_lock(lk, task_id)

\* RedisStore.release_lock run as one step: the key goes iff the agent owns it
release_lock(lk, task_id, agent_name) ==
    IF lock_owner(lk, task_id) = agent_name THEN del_lock(lk, task_id) ELSE lk

-----------------------------------------------------------------------------
(* cache.py: ready-task scan *)

\* the satisfied dependency statuses of list_ready_tasks
is_satisfied(status) == status \in {DEV_DONE, QA_PASSED, INTEGRATED, DONE}

\* lease_expired of recover_stale_tasks: bool(lease_expires and lease_expires <= now)
lease_expired(state) == state.lease_expires # NoLease /\ state.lease_expires <= 0

\* a recovery that finds no task stale
never_stale(g, tk, lk) == {}

\* a recovery that takes every RUNNING or CLAIMED task for stale
running_ids(g, tk, lk) ==
    {id \in NodeIds(dagNodes[g]) :
        get_task_state(tk, id) # NoState
            /\ get_task_state(tk, id).status \in {RUNNING, CLAIMED}}

\* the ids RedisStore.recover_stale_tasks resets
stale_ids(g, tk, lk) ==
    {id \in NodeIds(dagNodes[g]) :
        LET state == get_task_state(tk, id)
        IN /\ state # NoState
           /\ state.status \in {RUNNING, CLAIMED}
           /\ (lock_owner(lk, id) = None \/ lease_expired(state))}

\* a recovery that resets the status and leaves owner and lease in place
recover_stale_tasks_status_only(g, tk, lk) ==
    [task |-> [k \in DOMAIN tk |->
                 IF read_dag(g) # NoDag /\ k \in stale_ids(g, tk, lk)
                 THEN [tk[k] EXCEPT !["status"] = READY] ELSE tk[k]],
     recovered |-> << >>]

\* RedisStore.recover_stale_tasks: the task map it leaves and the list it returns
recover_stale_tasks(g, tk, lk) ==
    LET dag == read_dag(g)
        stale == IF dag = NoDag THEN {} ELSE stale_ids(g, tk, lk)
    IN [task |-> [k \in DOMAIN tk |->
                    IF k \in stale
                    THEN serialize_state([get_task_state(tk, k) EXCEPT
                            !.status = READY, !.owner = None, !.lease_expires = NoLease])
                    ELSE tk[k]],
        recovered |-> IF dag = NoDag THEN <<>>
                      ELSE SelectSeq([i \in 1..Len(dag.nodes) |-> dag.nodes[i].id],
                                     LAMBDA id : id \in stale)]

\* the nodes in the order of the nodes hash, unsorted
insertion_order(nodes) == nodes

\* sorted(dag.nodes, key=priority, reverse=True): a stable sort, so equal
\* priorities keep the order of the nodes hash
sorted_by_priority(nodes) ==
    LET before(i, j) == \/ nodes[i].priority > nodes[j].priority
                        \/ nodes[i].priority = nodes[j].priority /\ i < j
        rank(i) == Cardinality({j \in 1..Len(nodes) : before(j, i)}) + 1
    IN [r \in 1..Len(nodes) |-> nodes[CHOOSE i \in 1..Len(nodes) : rank(i) = r]]

\* a scan that passes READY tasks only and promotes no BLOCKED task
scan_ready_only(dag, tk, id) ==
    /\ get_task_state(tk, id) # NoState
    /\ get_task_state(tk, id).status = READY
    /\ \A dep \in dependencies_for(dag, id) :
          get_task_state(tk, dep) # NoState /\ is_satisfied(get_task_state(tk, dep).status)

\* whether the scan of list_ready_tasks appends this node, given the task map
\* left by the stale recovery
scan_ready(dag, tk, id) ==
    LET state == get_task_state(tk, id)
        dependencies == dependencies_for(dag, id)
        dep_status(dep) == IF get_task_state(tk, dep) = NoState THEN READY
                           ELSE get_task_state(tk, dep).status
    IN /\ state # NoState
       /\ state.status # DONE
       /\ \A dep \in dependencies : is_satisfied(dep_status(dep))
       /\ state.status \in {READY, BLOCKED}

\* RedisStore.list_ready_tasks: the task map it leaves and the list it returns
list_ready_tasks(g, tk, lk) ==
    LET dag == read_dag(g)
        rec == recover_stale_tasks(g, tk, lk)
        order == sorted_by_priority(dag.nodes)
        ids == [i \in 1..Len(order) |-> order[i].id]
        ready == SelectSeq(ids, LAMBDA id : scan_ready(dag, rec.task, id))
        promoted == {id \in NodeIds(dag.nodes) :
                        /\ scan_ready(dag, rec.task, id)
                        /\ get_task_state(rec.task, id).status = BLOCKED}
    IN IF dag = NoDag THEN [task |-> tk, ready |-> <<>>]
       ELSE [task |-> [k \in DOMAIN rec.task |->
                         IF k \in promoted
                         THEN serialize_state([get_task_state(rec.task, k) EXCEPT
                                                  !.status = READY])
                         ELSE rec.task[k]],
             ready |-> ready]

-----------------------------------------------------------------------------
(* cache.py: task synthesis *)

\* the id create_remediation_task / create_recovery_task settles on: the base
\* id, or on collision the base id with the first free suffix _1, _2, ...
fresh_id(base, existing_ids) ==
    IF base \notin existing_ids THEN base
    ELSE LET free(k) == (base \o "_" \o ToString(k)) \notin existing_ids
             suffix == CHOOSE k \in 1..(Cardinality(existing_ids) + 1) :
                          free(k) /\ \A j \in 1..(k - 1) : ~free(j)
         IN base \o "_" \o ToString(suffix)

\* the store after appending a synthesized node as a dependency of target_id:
\* the shared tail of create_remediation_task and create_recovery_task
append_dependency(st, new_node, target_id) ==
    LET target_deps == IF target_id \in DOMAIN st.deps THEN st.deps[target_id] ELSE {}
    IN [nodes |-> HSetNode(st.nodes, new_node),
        deps |-> [k \in DOMAIN st.deps \cup {new_node.id, target_id} |->
                    IF k = target_id THEN target_deps \cup {new_node.id}
                    ELSE IF k = new_node.id THEN {}
                    ELSE st.deps[k]],
        task |-> update_task_state(st.task, new_node.id, TaskState(READY))]

\* a remediation node that is written but never made a dependency of the QA task
create_remediation_task_unlinked(st, qa_task_id, dev_role, review_cycle, priority) ==
    LET remediation_id == fresh_id(qa_task_id \o "__fix_" \o ToString(review_cycle),
                                   NodeIds(st.nodes))
        new_node == TaskNode(remediation_id, priority,
                        [phase |-> "development", required_role |-> dev_role])
    IN [st EXCEPT !.nodes = HSetNode(st.nodes, new_node),
                  !.task = update_task_state(st.task, remediation_id, TaskState(READY))]

\* RedisStore.create_remediation_task
create_remediation_task(st, qa_task_id, dev_role, review_cycle, priority) ==
    LET remediation_id == fresh_id(qa_task_id \o "__fix_" \o ToString(review_cycle),
                                   NodeIds(st.nodes))
        new_node == TaskNode(remediation_id, priority,
                        [phase |-> "development", required_role |-> dev_role,
                         parent_task_id |-> qa_task_id,
                         review_cycle |-> ToString(review_cycle),
                         dev_role |-> dev_role])
    IN append_dependency(st, new_node, qa_task_id)

\* a recovery node that any role may claim
create_recovery_task_any_role(st, blocked_task_id, owner_role, recovery_attempt, priority) ==
    LET recovery_id == fresh_id(blocked_task_id \o "__recover_" \o ToString(recovery_attempt),
                                NodeIds(st.nodes))
        new_node == TaskNode(recovery_id, priority,
                        [phase |-> "development", required_role |-> "",
                         parent_task_id |-> blocked_task_id,
                         recovery_for |-> blocked_task_id,
                         recovery_attempt |-> ToString(recovery_attempt)])
    IN append_dependency(st, new_node, blocked_task_id)

\* RedisStore.create_recovery_task
create_recovery_task(st, blocked_task_id, owner_role, recovery_attempt, priority) ==
    LET recovery_id == fresh_id(blocked_task_id \o "__recover_" \o ToString(recovery_attempt),
                                NodeIds(st.nodes))
        new_node == TaskNode(recovery_id, priority,
                        [phase |-> "development", required_role |-> owner_role,
                         parent_task_id |-> blocked_task_id,
                         recovery_for |-> blocked_task_id,
                         recovery_attempt |-> ToString(recovery_attempt)])
    IN append_dependency(st, new_node, blocked_task_id)

-----------------------------------------------------------------------------
(* runtime.py: the oracle's answers *)

\* a text of 601 characters that matches no recoverable pattern, and its first 600
LongText == "x*601"
LongTextCut == "x*600"

\* error[:600]: only LongText is longer than 600 characters
Truncate600(error) == IF error = LongText THEN LongTextCut ELSE error

\* int(s) for the decimal strings the runtime writes into the metadata
StrToInt(s) == CHOOSE n \in 0..99 : ToString(n) = s

\* metadata with one key set (dict item assignment)
MetaSet(metadata, key, value) ==
    [k \in DOMAIN metadata \cup {key} |-> IF k = key THEN value ELSE metadata[k]]

MAX_RECOVERY_ATTEMPTS == 3
\* MIN_RECOVERY_CONFIDENCE = 0.75, in hundredths
MIN_RECOVERY_CONFIDENCE == 75

\* TaskExecutionResult statuses the oracle may return (already stripped and lowered)
ExecStatuses == {"done", "failed", "blocked", "qa_failed", "partial"}
Summaries == {"summary"}
Outputs == {<<"artifact://out">>}
\* texts of a raised error: "timed out" matches _RECOVERABLE_ERROR_PATTERNS
Errors == {"timed out", "boom"}
\* execution.notes
Notes == {"", "boom"}
\* assess_recovery: it raises, or returns recoverable with a confidence
Assessments == {[raises |-> TRUE, recoverable |-> FALSE, confidence |-> 0],
                [raises |-> FALSE, recoverable |-> TRUE, confidence |-> 90],
                [raises |-> FALSE, recoverable |-> TRUE, confidence |-> 50],
                [raises |-> FALSE, recoverable |-> FALSE, confidence |-> 90]}

\* what the oracle does in one execution: execute_task and summarize_task
\* return, or one of them raises; assess is the answer of assess_recovery where
\* the runtime consults it, which it does not for a success, a QA failure or an
\* error text that matches a recoverable pattern
NoAssessment == [raises |-> TRUE, recoverable |-> FALSE, confidence |-> 0]
Executions ==
    [raises : {FALSE}, status : ExecStatuses \ {"failed", "blocked"}, outputs : Outputs,
     notes : {""}, summary : Summaries, error : {""}, assess : {NoAssessment}]
    \cup
    [raises : {FALSE}, status : {"failed"}, outputs : {<< >>},
     notes : Notes, summary : Summaries, error : {""}, assess : Assessments]
    \cup
    [raises : {FALSE}, status : {"blocked"}, outputs : {<< >>},
     notes : Notes \ {""}, summary : Summaries, error : {""}, assess : Assessments]
    \cup
    [raises : {TRUE}, status : {"done"}, outputs : {<< >>}, notes : {""},
     summary : Summaries, error : {"timed out"}, assess : {NoAssessment}]
    \cup
    [raises : {TRUE}, status : {"done"}, outputs : {<< >>}, notes : {""},
     summary : Summaries, error : Errors \ {"timed out"}, assess : Assessments]

-----------------------------------------------------------------------------
(* runtime.py: recording the outcome *)

\* _is_node_eligible without its required_role test
is_node_eligible_any_role(a, n, tk) ==
    /\ get_task_state(tk, n.id) # NoState
    /\ get_task_state(tk, n.id).status \notin {DONE, FAILED, INTEGRATED}

\* AgentRuntime._is_node_eligible
is_node_eligible(a, n, tk) ==
    LET required_role == MetaGet(n, "required_role", "")
        state == get_task_state(tk, n.id)
    IN /\ ~(required_role # "" /\ required_role # agent_role(a))
       /\ state # NoState
       /\ state.status \notin {DONE, FAILED, INTEGRATED}

\* AgentRuntime._record_failure
record_failure(st, n, error) ==
    [st EXCEPT !.task = update_task_state(st.task, n.id,
                            [TaskState(FAILED) EXCEPT !.last_error = error])]

\* AgentRuntime._deterministic_recovery_decision: a pattern matched
deterministic_recovery_decision(error) == error \in {"timed out"}

\* a decision that takes the oracle's word whatever its confidence
build_recovery_decision_any_confidence(error, assess) ==
    \/ deterministic_recovery_decision(error)
    \/ ~assess.raises /\ assess.recoverable

\* AgentRuntime._build_recovery_decision: the confidence of the decision it
\* returns, in hundredths
recovery_decision_confidence(error, assess) ==
    IF deterministic_recovery_decision(error) THEN 100
    ELSE IF assess.raises THEN 0
    ELSE assess.confidence

\* AgentRuntime._build_recovery_decision: whether the failure is recoverable
build_recovery_decision(error, assess) ==
    \/ deterministic_recovery_decision(error)
    \/ /\ ~assess.raises
       /\ assess.recoverable
       /\ assess.confidence >= MIN_RECOVERY_CONFIDENCE

\* a recovery-task branch without the cap on the attempts
takes_recovery_uncapped(n, error, assess) == build_recovery_decision(error, assess)

\* whether _record_failure_or_recovery takes the recovery-task branch
takes_recovery(n, error, assess) ==
    /\ StrToInt(MetaGet(n, "recovery_attempts", "0")) < MAX_RECOVERY_ATTEMPTS
    /\ build_recovery_decision(error, assess)

\* AgentRuntime._record_failure_or_recovery
record_failure_or_recovery(a, st, n, error, assess) ==
    LET attempts == StrToInt(MetaGet(n, "recovery_attempts", "0"))
        attempt == attempts + 1
        reason == "reason"
        n2 == [n EXCEPT !.metadata =
                  MetaSet(MetaSet(n.metadata, "recovery_attempts", ToString(attempt)),
                          "last_recovery_reason", reason)]
        st2 == [st EXCEPT !.nodes = HSetNode(st.nodes, n2)]
        st3 == create_recovery_task(st2, n.id,
                   MetaGet(n2, "required_role", agent_role(a)), attempt,
                   IF n.priority + 2 > 0 THEN n.priority + 2 ELSE 0)
        recovery_id == st3.nodes[Len(st3.nodes)].id
    IN IF ~takes_recovery(n, error, assess) THEN record_failure(st, n, error)
       ELSE [st3 EXCEPT !.task = update_task_state(st3.task, n.id,
                [TaskState(BLOCKED) EXCEPT
                    !.progress = "Recoverable failure; created remediation task "
                                 \o recovery_id,
                    !.last_error = Truncate600(error)])]

\* AgentRuntime._record_qa_failure
record_qa_failure(a, st, n, summary) ==
    LET cycle == StrToInt(MetaGet(n, "review_cycle", "0")) + 1
        own_role == IF MetaGet(n, "dev_role", "") # "" THEN n.metadata["dev_role"]
                    ELSE agent_role(a)
        manager_role == MetaGet(n, "manager_role", "")
        dev_role == IF cycle > 3 /\ manager_role # "" THEN manager_role ELSE own_role
        n2 == [n EXCEPT !.metadata = MetaSet(n.metadata, "review_cycle", ToString(cycle))]
        st2 == [st EXCEPT !.nodes = HSetNode(st.nodes, n2)]
        st3 == create_remediation_task(st2, n.id, dev_role, cycle,
                   IF n.priority + 1 > 0 THEN n.priority + 1 ELSE 0)
    IN [st3 EXCEPT !.task = update_task_state(st3.task, n.id,
            [TaskState(BLOCKED) EXCEPT !.progress = summary])]

\* a transition table that knows DONE only
phase_status_done(phase) == DONE

\* the status of the phase transition table of _record_result
phase_status(phase) ==
    IF phase = "development" THEN DEV_DONE
    ELSE IF phase = "qa" THEN QA_PASSED
    ELSE IF phase = "integration" THEN DONE
    ELSE DONE

\* which branch _record_result takes
result_branch(n, status) ==
    LET phase == MetaGet(n, "phase", "development")
    IN IF phase = "qa" /\ status \in {"failed", "qa_failed"} THEN "qa_failure"
       ELSE IF status \in {"failed", "blocked"} THEN "failure"
       ELSE "success"

\* AgentRuntime._record_result
record_result(a, st, n, x) ==
    LET branch == result_branch(n, x.status)
        \* execution.notes or execution_status
        error == IF x.notes # "" THEN x.notes ELSE x.status
    IN IF branch = "qa_failure" THEN record_qa_failure(a, st, n, x.summary)
       ELSE IF branch = "failure" THEN record_failure_or_recovery(a, st, n, error, x.assess)
       ELSE [st EXCEPT !.task = update_task_state(st.task, n.id,
                [TaskState(phase_status(MetaGet(n, "phase", "development"))) EXCEPT
                    !.progress = x.summary, !.artifacts = x.outputs])]

\* the try/except body of _run_cycle after the RUNNING write: the store it leaves
record_outcome(a, st, n, x) ==
    IF x.raises THEN record_failure_or_recovery(a, st, n, x.error, x.assess)
    ELSE record_result(a, st, n, x)

\* whether the outcome appends a node to the DAG
synthesizes(n, x) ==
    IF x.raises THEN takes_recovery(n, x.error, x.assess)
    ELSE \/ result_branch(n, x.status) = "qa_failure"
         \/ /\ result_branch(n, x.status) = "failure"
            /\ takes_recovery(n, IF x.notes # "" THEN x.notes ELSE x.status, x.assess)

-----------------------------------------------------------------------------
(* AgentRuntime.__init__ and an empty store: nobody is paused, no spending cap
   is published, no heartbeat is written, no store call is under way *)

InitControl ==
    /\ paused = [a \in Agents |-> FALSE]
    /\ spending_cap_until = [g \in Goals |-> 0]
    /\ agent_heartbeat = [a \in Agents |-> 0]
    /\ last_toggle = [a \in Agents |-> None]
    /\ elevate_dag = [a \in Agents |-> NoDag]
    /\ creating = [a \in Agents |-> NoNode]
    /\ cap_until = [a \in Agents |-> NoUntil]
    /\ active = [a \in Agents |-> TRUE]
    /\ cycles = [a \in Agents |-> 0]
    /\ registration = [a \in Agents |-> TRUE]
    /\ memory_snapshot = [a \in Agents |-> FALSE]
    /\ spawned = << >>
    /\ spawn_calls = << >>
    /\ reconciles = 0
    /\ coordinator = "running"
    /\ goal_agents = << >>
    /\ oracle_dag = NoDag
    /\ planned_dag = NoDag
    /\ oracle_pc = "idle"
    /\ json_attempt = 0
    /\ current_prompt = NoPrompt
    /\ launches = 0
    /\ last_raw = NoRaw
    /\ json_result = NoPayload
    /\ cap_message = NoResetTime
    /\ local_now = NoClock
    /\ wait_seconds = << >>

-----------------------------------------------------------------------------
(* The initial DAG: a development task and the QA task that reviews it *)

InitialDag ==
    [goal_id |-> "g1",
     nodes |-> << TaskNode("D", 1, << >>),
                  TaskNode("Q", 1, [phase |-> "qa", required_role |-> "qa-dev"]) >>,
     edges |-> {<<"D", "Q">>}]

\* the store of goal g as one record, and back
Store(g) == [nodes |-> dagNodes[g], deps |-> dagDeps[g], task |-> task]

Init ==
    /\ dagNodes = [g \in Goals |-> InitialDag.nodes]
    /\ dagDeps = [g \in Goals |-> write_dag_deps(InitialDag)]
    /\ task = write_dag_task(<< >>, InitialDag)
    /\ lock = << >>
    /\ pc = [a \in Agents |-> "idle"]
    /\ ready_task_ids = [a \in Agents |-> << >>]
    /\ ready_nodes = [a \in Agents |-> << >>]
    /\ node = [a \in Agents |-> NoNode]
    /\ resume_reported = {}
    /\ polls = 0
    /\ InitControl

-----------------------------------------------------------------------------
(* runtime.py: AgentRuntime._run_cycle, one action per step *)

\* ready_task_ids = list_ready_tasks(goal_id)
ListReady(a) ==
    /\ pc[a] = "idle"
    /\ LET res == list_ready_tasks(goal_id(a), task, lock)
       IN /\ task' = res.task
          /\ ready_task_ids' = [ready_task_ids EXCEPT ![a] = res.ready]
    /\ pc' = [pc EXCEPT ![a] = "listed"]
    /\ UNCHANGED <<dagNodes, dagDeps, lock, ready_nodes, node, resume_reported, polls, ctl>>

\* the eligibility filter over ready_task_ids; the cycle ends when nothing is left
FilterReady(a) ==
    /\ pc[a] = "listed"
    /\ LET nodes == dagNodes[goal_id(a)]
           eligible == SelectSeq(ready_task_ids[a], LAMBDA id :
                          /\ get_task_node(nodes, id) # NoNode
                          /\ is_node_eligible(a, get_task_node(nodes, id), task))
       IN /\ pc' = [pc EXCEPT ![a] = IF eligible = << >> THEN "idle" ELSE "select"]
          /\ ready_nodes' = [ready_nodes EXCEPT ![a] = eligible]
    /\ ready_task_ids' = [ready_task_ids EXCEPT ![a] = << >>]
    /\ UNCHANGED <<dagNodes, dagDeps, task, lock, node, resume_reported, polls, ctl>>

\* select_next_task returns: null, an id that is no node, or the id of a node;
\* then get_task_node and the second _is_node_eligible
Select(a) ==
    /\ pc[a] = "select"
    /\ \E selected_task_id \in {None, "no-such-task"} \cup NodeIds(dagNodes[goal_id(a)]) :
          LET n == get_task_node(dagNodes[goal_id(a)], selected_task_id)
          IN IF selected_task_id # None /\ n # NoNode /\ is_node_eligible(a, n, task)
             THEN /\ pc' = [pc EXCEPT ![a] = "acquire"]
                  /\ node' = [node EXCEPT ![a] = n]
             ELSE /\ pc' = [pc EXCEPT ![a] = "idle"]
                  /\ UNCHANGED node
    /\ ready_nodes' = [ready_nodes EXCEPT ![a] = << >>]
    /\ UNCHANGED <<dagNodes, dagDeps, task, lock, ready_task_ids, resume_reported, polls, ctl>>

\* acquire_lock(node.id, agent_name, lease_ttl)
Acquire(a) ==
    /\ pc[a] = "acquire"
    /\ LET res == acquire_lock(lock, node[a].id, a, LeaseTTL)
       IN /\ lock' = res.lock
          /\ pc' = [pc EXCEPT ![a] = IF res.acquired THEN "mark" ELSE "denied"]
    /\ UNCHANGED <<dagNodes, dagDeps, task, ready_task_ids, ready_nodes, node, resume_reported, polls, ctl>>

\* the lock was denied: the cycle returns
Denied(a) ==
    /\ pc[a] = "denied"
    /\ pc' = [pc EXCEPT ![a] = "idle"]
    /\ node' = [node EXCEPT ![a] = NoNode]
    /\ UNCHANGED <<dagNodes, dagDeps, task, lock, ready_task_ids, ready_nodes,
                   resume_reported, polls, ctl>>

\* the RUNNING write: state.as_running(owner, now + lease_ttl)
MarkRunning(a) ==
    /\ pc[a] = "mark"
    /\ LET current == get_task_state(task, node[a].id)
           state == IF current = NoState THEN TaskState(READY) ELSE current
       IN task' = update_task_state(task, node[a].id, as_running(state, a, LeaseTTL))
    /\ pc' = [pc EXCEPT ![a] = "execute"]
    /\ UNCHANGED <<dagNodes, dagDeps, lock, ready_task_ids, ready_nodes, node, resume_reported, polls, ctl>>

\* the number of remediation and recovery nodes among the nodes
Synthesized(nodes) ==
    Cardinality({i \in 1..Len(nodes) : "parent_task_id" \in DOMAIN nodes[i].metadata})

\* execute_task and summarize_task return or raise, and the outcome is recorded;
\* once the DAG holds budget synthesized nodes the oracle stops failing tasks in
\* the ways that add one
Finish(a, budget) ==
    /\ pc[a] = "execute"
    /\ \E x \in Executions :
          LET g == goal_id(a)
              st == record_outcome(a, Store(g), node[a], x)
          IN /\ synthesizes(node[a], x) => Synthesized(dagNodes[g]) < budget
             /\ dagNodes' = [dagNodes EXCEPT ![g] = st.nodes]
             /\ dagDeps' = [dagDeps EXCEPT ![g] = st.deps]
             /\ task' = st.task
    /\ pc' = [pc EXCEPT ![a] = "release"]
    /\ UNCHANGED <<lock, ready_task_ids, ready_nodes, node, resume_reported, polls, ctl>>

\* release_lock, first command: GET the lock key
ReleaseRead(a) ==
    /\ pc[a] = "release"
    /\ IF lock_owner(lock, node[a].id) = a
       THEN /\ pc' = [pc EXCEPT ![a] = "release_del"]
            /\ UNCHANGED node
       ELSE /\ pc' = [pc EXCEPT ![a] = "idle"]
            /\ node' = [node EXCEPT ![a] = NoNode]
    /\ UNCHANGED <<dagNodes, dagDeps, task, lock, ready_task_ids, ready_nodes,
                   resume_reported, polls, ctl>>

\* release_lock, second command: DEL the lock key
ReleaseDelete(a) ==
    /\ pc[a] = "release_del"
    /\ lock' = del_lock(lock, node[a].id)
    /\ pc' = [pc EXCEPT ![a] = "idle"]
    /\ node' = [node EXCEPT ![a] = NoNode]
    /\ UNCHANGED <<dagNodes, dagDeps, task, ready_task_ids, ready_nodes, resume_reported,
                   polls, ctl>>

-----------------------------------------------------------------------------
(* The environment: time and the coordinator *)

\* one unit of time passes: the TTLs of the lock, spending-cap and heartbeat
\* keys run down (Redis drops a key at 0) and every lease comes one unit
\* closer to now
Tick ==
    /\ \/ lock # << >>
       \/ \E id \in DOMAIN task : "lease_expires" \in DOMAIN task[id]
                                   /\ task[id]["lease_expires"] > 0
       \/ \E g \in Goals : spending_cap_until[g] > 0
       \/ \E a \in Agents : agent_heartbeat[a] > 0
       \/ \E a \in Agents : cap_until[a] > 0
    /\ spending_cap_until' = [g \in Goals |->
                                IF spending_cap_until[g] > 0 THEN spending_cap_until[g] - 1
                                ELSE 0]
    /\ agent_heartbeat' = [a \in Agents |->
                             IF agent_heartbeat[a] > 0 THEN agent_heartbeat[a] - 1 ELSE 0]
    /\ cap_until' = [a \in Agents |->
                       IF cap_until[a] > 0 THEN cap_until[a] - 1
                       ELSE cap_until[a]]
    /\ lock' = [k \in {id \in DOMAIN lock : lock[id].ttl > 1} |->
                  [lock[k] EXCEPT !.ttl = @ - 1]]
    /\ task' = [k \in DOMAIN task |->
                  IF "lease_expires" \in DOMAIN task[k] /\ task[k]["lease_expires"] > 0
                  THEN [task[k] EXCEPT !["lease_expires"] = @ - 1]
                  ELSE task[k]]
    /\ UNCHANGED <<dagNodes, dagDeps, pc, ready_task_ids, ready_nodes, node, resume_reported,
                   polls, paused, last_toggle, elevate_dag, creating, outer>>

\* Orchestrator._report_resume_state: recover stale tasks once per goal
ReportResumeState(g) ==
    /\ g \notin resume_reported
    /\ task' = recover_stale_tasks(g, task, lock).task
    /\ resume_reported' = resume_reported \cup {g}
    /\ UNCHANGED <<dagNodes, dagDeps, lock, pc, ready_task_ids, ready_nodes, node, polls, ctl>>

Next ==
    \/ \E a \in Agents : ListReady(a)
    \/ \E a \in Agents : FilterReady(a)
    \/ \E a \in Agents : Select(a)
    \/ \E a \in Agents : Acquire(a)
    \/ \E a \in Agents : Denied(a)
    \/ \E a \in Agents : MarkRunning(a)
    \/ \E a \in Agents : Finish(a, MaxSynth)
    \/ \E a \in Agents : ReleaseRead(a)
    \/ \E a \in Agents : ReleaseDelete(a)
    \/ Tick
    \/ \E g \in Goals : ReportResumeState(g)

Spec == Init /\ [][Next]_vars

-----------------------------------------------------------------------------
(* The work cycles with room for one remediation or recovery node *)

\* the store fails while the outcome is recorded, in the try block and again in
\* the except block: nothing is written, the exception leaves _run_cycle
\* through the finally block, and the agent is started again
RecordRaises(a) ==
    /\ pc[a] = "execute"
    /\ pc' = [pc EXCEPT ![a] = "release"]
    /\ UNCHANGED <<dagNodes, dagDeps, task, lock, ready_task_ids, ready_nodes, node,
                   resume_reported, polls, ctl>>

NextSynth ==
    \/ \E a \in Agents : ListReady(a)
    \/ \E a \in Agents : FilterReady(a)
    \/ \E a \in Agents : Select(a)
    \/ \E a \in Agents : Acquire(a)
    \/ \E a \in Agents : Denied(a)
    \/ \E a \in Agents : MarkRunning(a)
    \/ \E a \in Agents : Finish(a, 1)
    \/ \E a \in Agents : RecordRaises(a)
    \/ \E a \in Agents : ReleaseRead(a)
    \/ \E a \in Agents : ReleaseDelete(a)
    \/ Tick
    \/ \E g \in Goals : ReportResumeState(g)

\* a single task T that both agents may claim, or a QA task T of the qa-dev role
SynthMetadata == {<< >>, [phase |-> "qa", required_role |-> "qa-dev"]}

InitSynth ==
    \E metadata \in SynthMetadata :
        LET dag == [goal_id |-> "g1", nodes |-> <<TaskNode("T", 1, metadata)>>, edges |-> {}]
        IN /\ dagNodes = [g \in Goals |-> dag.nodes]
           /\ dagDeps = [g \in Goals |-> write_dag_deps(dag)]
           /\ task = write_dag_task(<< >>, dag)
           /\ lock = << >>
           /\ pc = [a \in Agents |-> "idle"]
           /\ ready_task_ids = [a \in Agents |-> << >>]
           /\ ready_nodes = [a \in Agents |-> << >>]
           /\ node = [a \in Agents |-> NoNode]
           /\ resume_reported = {}
           /\ polls = 0
           /\ InitControl

SpecSynth == InitSynth /\ [][NextSynth]_vars

-----------------------------------------------------------------------------
(* runtime.py: operator directives, applied at the top of the agent loop *)

\* the second argument of ELEVATE as the operator may write it
PriorityArgs == {"2", "high"}

\* int(priority): whether it raises ValueError, and its value otherwise; a
\* leading minus sign is part of a decimal literal
int_raises(priority) == \A n \in -9..99 : ToString(n) # priority

int_value(priority) == CHOOSE n \in -9..99 : ToString(n) = priority

\* AgentRuntime._elevate_task: the DAG it hands to write_dag
elevate_task(dag, task_id, priority) ==
    [dag EXCEPT !.nodes =
        [i \in 1..Len(dag.nodes) |->
            IF dag.nodes[i].id = task_id /\ ~int_raises(priority)
            THEN [dag.nodes[i] EXCEPT !.priority = int_value(priority)]
            ELSE dag.nodes[i]]]

\* poll_heartbeat finds "ELEVATE <task> <priority>" and apply_directives runs
\* _elevate_task, which ends in write_dag
ApplyDirectives(a) ==
    /\ pc[a] = "idle"
    /\ polls < MaxPolls
    /\ read_dag(goal_id(a)) # NoDag
    /\ \E task_id \in NodeIds(dagNodes[goal_id(a)]) \cup {"no-such-task"},
          priority \in PriorityArgs :
          LET dag == elevate_task(read_dag(goal_id(a)), task_id, priority)
          IN /\ dagNodes' = [dagNodes EXCEPT ![goal_id(a)] = dag.nodes]
             /\ dagDeps' = [dagDeps EXCEPT ![goal_id(a)] = write_dag_deps(dag)]
             /\ task' = write_dag_task(task, dag)
    /\ polls' = polls + 1
    /\ UNCHANGED <<lock, pc, ready_task_ids, ready_nodes, node, resume_reported, ctl>>

NextDirectives ==
    \/ Next
    \/ \E a \in Agents : ApplyDirectives(a)

SpecDirectives == Init /\ [][NextDirectives]_vars

-----------------------------------------------------------------------------
(* The ready-task scan over the stores a history of cycles, restarts and     *)
(* directives may have left: three nodes, every priority assignment, four    *)
(* dependency shapes and every combination of stored states                  *)

ReadyEdges ==
    {{}, {<<"t1", "t2">>}, {<<"t1", "t3">>, <<"t2", "t3">>},
     {<<"t1", "t2">>, <<"t2", "t3">>}}

ReadyDags ==
    {[goal_id |-> "g1",
      nodes |-> <<TaskNode("t1", p[1], << >>), TaskNode("t2", p[2], << >>),
                  TaskNode("t3", p[3], << >>)>>,
      edges |-> e] : p \in [1..3 -> 0..MaxPriority], e \in ReadyEdges}

\* the stored states: a RUNNING task comes with or without its lock and with a
\* lease that is still ahead or has run out
StoredKinds ==
    {"ready", "blocked", "dev_done", "done", "failed",
     "running", "running_no_lock", "running_lease_out", "running_no_lock_lease_out"}

KindState(kind) ==
    IF kind = "ready" THEN TaskState(READY)
    ELSE IF kind = "blocked" THEN TaskState(BLOCKED)
    ELSE IF kind = "dev_done" THEN [TaskState(DEV_DONE) EXCEPT !.progress = "summary"]
    ELSE IF kind = "done" THEN [TaskState(DONE) EXCEPT !.progress = "summary"]
    ELSE IF kind = "failed" THEN [TaskState(FAILED) EXCEPT !.last_error = "boom"]
    ELSE as_running(TaskState(READY), "a2",
            IF kind \in {"running", "running_no_lock"} THEN LeaseTTL ELSE 0)

InitReady ==
    \E dag \in ReadyDags : \E kind \in [NodeIds(dag.nodes) -> StoredKinds] :
        /\ \A id \in NodeIds(dag.nodes) :
              kind[id] = "blocked" => dependencies_for(dag, id) # {}
        /\ dagNodes = [g \in Goals |-> dag.nodes]
        /\ dagDeps = [g \in Goals |-> write_dag_deps(dag)]
        /\ task = [id \in NodeIds(dag.nodes) |-> serialize_state(KindState(kind[id]))]
        /\ lock = [id \in {i \in NodeIds(dag.nodes) :
                              kind[i] \in {"running", "running_lease_out"}} |->
                      [owner |-> "a2", ttl |-> LeaseTTL]]
        /\ pc = [a \in Agents |-> "idle"]
        /\ ready_task_ids = [a \in Agents |-> << >>]
        /\ ready_nodes = [a \in Agents |-> << >>]
        /\ node = [a \in Agents |-> NoNode]
        /\ resume_reported = {}
        /\ polls = 0
        /\ InitControl

NextReady ==
    \/ \E a \in Agents : ListReady(a)
    \/ \E a \in Agents : FilterReady(a)

SpecReady == InitReady /\ [][NextReady]_vars

-----------------------------------------------------------------------------
(* The work cycle on a single task of every phase *)

PhaseMetadata ==
    {<< >>} \cup {[phase |-> ph] : ph \in {"development", "qa", "integration", "docs"}}

InitPhases ==
    \E metadata \in PhaseMetadata :
        LET dag == [goal_id |-> "g1", nodes |-> <<TaskNode("T", 1, metadata)>>, edges |-> {}]
        IN /\ dagNodes = [g \in Goals |-> dag.nodes]
           /\ dagDeps = [g \in Goals |-> write_dag_deps(dag)]
           /\ task = write_dag_task(<< >>, dag)
           /\ lock = << >>
           /\ pc = [a \in Agents |-> "idle"]
           /\ ready_task_ids = [a \in Agents |-> << >>]
           /\ ready_nodes = [a \in Agents |-> << >>]
           /\ node = [a \in Agents |-> NoNode]
           /\ resume_reported = {}
           /\ polls = 0
           /\ InitControl

SpecPhases == InitPhases /\ [][Next]_vars

-----------------------------------------------------------------------------
(* Outcome recording on one claimed task: every metadata the failure paths
   read, with and without nodes that already carry the id of the next
   remediation or recovery node *)

\* the metadata sets extended by an optional key
WithOptional(metas, key, values) ==
    metas \cup {MetaSet(m, key, v) : m \in metas, v \in values}

RecordMetadata ==
    WithOptional(WithOptional(WithOptional(WithOptional(
        {[phase |-> "qa", required_role |-> "qa-dev"]},
        "review_cycle", {"0", "2", "3"}), "dev_role", {"features-dev"}),
        "manager_role", {"team-lead"}), "recovery_attempts", {"3"})
    \cup WithOptional(WithOptional(
        {<< >>, [phase |-> "integration"]},
        "required_role", {"qa-dev"}), "recovery_attempts", {"0", "2", "3", "4"})

\* the id the next remediation or recovery node of task T gets when it is free
NextSynthId(metadata) ==
    IF MetaGet([metadata |-> metadata], "phase", "development") = "qa"
    THEN "T__fix_" \o ToString(StrToInt(MetaGet([metadata |-> metadata], "review_cycle", "0")) + 1)
    ELSE "T__recover_" \o ToString(StrToInt(MetaGet([metadata |-> metadata], "recovery_attempts", "0")) + 1)

\* a DAG P -> T, followed by taken nodes that carry the next synthesized id
RecordDag(metadata, taken) ==
    LET base == NextSynthId(metadata)
        extra == [i \in 1..taken |->
                    TaskNode(IF i = 1 THEN base ELSE base \o "_" \o ToString(i - 1), 0, << >>)]
    IN [goal_id |-> "g1",
        nodes |-> <<TaskNode("P", 1, << >>), TaskNode("T", 1, metadata)>> \o extra,
        edges |-> {<<"P", "T">>}]

\* agent a runs T: the state after the RUNNING write, the lock held or run out
InitRecord ==
    \E metadata \in RecordMetadata, taken \in 0..2, a \in Agents, held \in BOOLEAN :
        LET dag == RecordDag(metadata, taken)
            written == write_dag_task(<< >>, dag)
            tk == update_task_state(update_task_state(written, "P", TaskState(DEV_DONE)),
                                    "T", as_running(TaskState(READY), a,
                                                    IF held THEN LeaseTTL ELSE 0))
        IN /\ is_node_eligible(a, dag.nodes[2], written)
           /\ dagNodes = [g \in Goals |-> dag.nodes]
           /\ dagDeps = [g \in Goals |-> write_dag_deps(dag)]
           /\ task = tk
           /\ lock = IF held THEN acquire_lock(<< >>, "T", a, LeaseTTL).lock ELSE << >>
           /\ pc = [b \in Agents |-> IF b = a THEN "execute" ELSE "idle"]
           /\ ready_task_ids = [b \in Agents |-> << >>]
           /\ ready_nodes = [b \in Agents |-> << >>]
           /\ node = [b \in Agents |-> IF b = a THEN dag.nodes[2] ELSE NoNode]
           /\ resume_reported = {}
           /\ polls = 0
           /\ InitControl

NextRecord ==
    \/ \E a \in Agents : Finish(a, Len(dagNodes[goal_id(a)]) + 1)
    \/ \E a \in Agents : ReleaseRead(a)
    \/ \E a \in Agents : ReleaseDelete(a)
    \/ Tick

SpecRecord == InitRecord /\ [][NextRecord]_vars

-----------------------------------------------------------------------------
(* Task synthesis and ELEVATE command by command: create_remediation_task and
   create_recovery_task are a read_dag followed by separate HSETs, and
   _elevate_task is a read_dag followed by one write_dag transaction *)

\* DagModel's validator: every edge joins two nodes of the DAG
dag_validates(dag) ==
    \A e \in dag.edges : e[1] \in NodeIds(dag.nodes) /\ e[2] \in NodeIds(dag.nodes)

\* the error text handed to _record_failure_or_recovery for execution x
execution_error(x) ==
    IF x.raises THEN x.error ELSE IF x.notes # "" THEN x.notes ELSE x.status

\* the node create_remediation_task / create_recovery_task builds for the task
\* n of agent a (its metadata already counts the new cycle or attempt) from
\* the ids it reads now
synthesized_node(a, st, n, qa) ==
    LET cycle == StrToInt(MetaGet(n, "review_cycle", "0"))
        own_role == IF MetaGet(n, "dev_role", "") # "" THEN n.metadata["dev_role"]
                    ELSE agent_role(a)
        dev_role == IF cycle > 3 /\ MetaGet(n, "manager_role", "") # ""
                    THEN n.metadata["manager_role"] ELSE own_role
        attempt == StrToInt(MetaGet(n, "recovery_attempts", "0"))
        created == IF qa
                   THEN create_remediation_task(st, n.id, dev_role, cycle,
                            IF n.priority + 1 > 0 THEN n.priority + 1 ELSE 0)
                   ELSE create_recovery_task(st, n.id,
                            MetaGet(n, "required_role", agent_role(a)), attempt,
                            IF n.priority + 2 > 0 THEN n.priority + 2 ELSE 0)
    IN created.nodes[Len(created.nodes)]

\* the failure asks for a new node: node.metadata gets the new review_cycle or
\* recovery_attempts and update_task_node writes the node
UpdateNode(a) ==
    /\ pc[a] = "execute"
    /\ \E x \in Executions :
          LET g == goal_id(a)
              st == record_outcome(a, Store(g), node[a], x)
              n2 == get_task_node(st.nodes, node[a].id)
              qa == ~x.raises /\ result_branch(node[a], x.status) = "qa_failure"
          IN /\ synthesizes(node[a], x)
             /\ dagNodes' = [dagNodes EXCEPT ![g] = HSetNode(dagNodes[g], n2)]
             /\ node' = [node EXCEPT ![a] = n2]
             /\ creating' = [creating EXCEPT ![a] =
                   [qa |-> qa,
                    text |-> IF qa THEN x.summary ELSE Truncate600(execution_error(x)),
                    new_node |-> NoNode]]
    /\ pc' = [pc EXCEPT ![a] = "create_read"]
    /\ UNCHANGED <<dagDeps, task, lock, ready_task_ids, ready_nodes, resume_reported, polls,
                   paused, spending_cap_until, agent_heartbeat, last_toggle, elevate_dag, cap_until, outer>>

\* create_*_task: read_dag and the choice of the new id
CreateRead(a) ==
    /\ pc[a] = "create_read"
    /\ read_dag(goal_id(a)) # NoDag
    /\ dag_validates(read_dag(goal_id(a)))
    /\ creating' = [creating EXCEPT ![a].new_node =
                      synthesized_node(a, Store(goal_id(a)), node[a], creating[a].qa)]
    /\ pc' = [pc EXCEPT ![a] = "create_node"]
    /\ UNCHANGED <<dagNodes, dagDeps, task, lock, ready_task_ids, ready_nodes, node,
                   resume_reported, polls, paused, spending_cap_until, agent_heartbeat,
                   last_toggle, elevate_dag, cap_until, outer>>

\* create_*_task: HSET nodes_key new id
CreateNode(a) ==
    /\ pc[a] = "create_node"
    /\ dagNodes' = [dagNodes EXCEPT ![goal_id(a)] = HSetNode(@, creating[a].new_node)]
    /\ pc' = [pc EXCEPT ![a] = "create_deps"]
    /\ UNCHANGED <<dagDeps, task, lock, ready_task_ids, ready_nodes, node, resume_reported,
                   polls, ctl>>

\* create_*_task: HSET deps_key new id []
CreateDeps(a) ==
    /\ pc[a] = "create_deps"
    /\ LET deps == dagDeps[goal_id(a)]
           id == creating[a].new_node.id
       IN dagDeps' = [dagDeps EXCEPT ![goal_id(a)] =
                        [k \in DOMAIN deps \cup {id} |-> IF k = id THEN {} ELSE deps[k]]]
    /\ pc' = [pc EXCEPT ![a] = "create_link"]
    /\ UNCHANGED <<dagNodes, task, lock, ready_task_ids, ready_nodes, node, resume_reported,
                   polls, ctl>>

\* create_*_task: HGET the target's dependencies, append the new id, HSET them
CreateLink(a) ==
    /\ pc[a] = "create_link"
    /\ LET deps == dagDeps[goal_id(a)]
           target == node[a].id
           old == IF target \in DOMAIN deps THEN deps[target] ELSE {}
       IN dagDeps' = [dagDeps EXCEPT ![goal_id(a)] =
                        [k \in DOMAIN deps \cup {target} |->
                            IF k = target THEN old \cup {creating[a].new_node.id}
                            ELSE deps[k]]]
    /\ pc' = [pc EXCEPT ![a] = "create_state"]
    /\ UNCHANGED <<dagNodes, task, lock, ready_task_ids, ready_nodes, node, resume_reported,
                   polls, ctl>>

\* create_*_task: update_task_state(new id, READY)
CreateState(a) ==
    /\ pc[a] = "create_state"
    /\ task' = update_task_state(task, creating[a].new_node.id, TaskState(READY))
    /\ pc' = [pc EXCEPT ![a] = "record_state"]
    /\ UNCHANGED <<dagNodes, dagDeps, lock, ready_task_ids, ready_nodes, node,
                   resume_reported, polls, ctl>>

\* the BLOCKED write that ends _record_qa_failure and _record_failure_or_recovery
RecordState(a) ==
    /\ pc[a] = "record_state"
    /\ task' = update_task_state(task, node[a].id,
                  IF creating[a].qa
                  THEN [TaskState(BLOCKED) EXCEPT !.progress = creating[a].text]
                  ELSE [TaskState(BLOCKED) EXCEPT
                           !.progress = "Recoverable failure; created remediation task "
                                        \o creating[a].new_node.id,
                           !.last_error = creating[a].text])
    /\ creating' = [creating EXCEPT ![a] = NoNode]
    /\ pc' = [pc EXCEPT ![a] = "release"]
    /\ UNCHANGED <<dagNodes, dagDeps, lock, ready_task_ids, ready_nodes, node,
                   resume_reported, polls, paused, spending_cap_until, agent_heartbeat,
                   last_toggle, elevate_dag, cap_until, outer>>

\* _elevate_task: read_dag and the change of the priority
ElevateRead(a) ==
    /\ pc[a] = "idle"
    /\ polls < MaxPolls
    /\ read_dag(goal_id(a)) # NoDag
    /\ dag_validates(read_dag(goal_id(a)))
    /\ \E task_id \in NodeIds(dagNodes[goal_id(a)]) \cup {"no-such-task"},
          priority \in PriorityArgs :
          elevate_dag' = [elevate_dag EXCEPT ![a] =
                            elevate_task(read_dag(goal_id(a)), task_id, priority)]
    /\ polls' = polls + 1
    /\ pc' = [pc EXCEPT ![a] = "elevate"]
    /\ UNCHANGED <<dagNodes, dagDeps, task, lock, ready_task_ids, ready_nodes, node,
                   resume_reported, paused, spending_cap_until, agent_heartbeat,
                   last_toggle, creating, cap_until, outer>>

\* _elevate_task: write_dag of the DAG it read
ElevateWrite(a) ==
    /\ pc[a] = "elevate"
    /\ dagNodes' = [dagNodes EXCEPT ![goal_id(a)] = elevate_dag[a].nodes]
    /\ dagDeps' = [dagDeps EXCEPT ![goal_id(a)] = write_dag_deps(elevate_dag[a])]
    /\ task' = write_dag_task(task, elevate_dag[a])
    /\ elevate_dag' = [elevate_dag EXCEPT ![a] = NoDag]
    /\ pc' = [pc EXCEPT ![a] = "idle"]
    /\ UNCHANGED <<lock, ready_task_ids, ready_nodes, node, resume_reported, polls,
                   paused, spending_cap_until, agent_heartbeat, last_toggle, creating, cap_until, outer>>

NextDag ==
    \/ \E a \in Agents : Finish(a, 0)
    \/ \E a \in Agents : UpdateNode(a)
    \/ \E a \in Agents : CreateRead(a)
    \/ \E a \in Agents : CreateNode(a)
    \/ \E a \in Agents : CreateDeps(a)
    \/ \E a \in Agents : CreateLink(a)
    \/ \E a \in Agents : CreateState(a)
    \/ \E a \in Agents : RecordState(a)
    \/ \E a \in Agents : ElevateRead(a)
    \/ \E a \in Agents : ElevateWrite(a)
    \/ \E a \in Agents : ReleaseRead(a)
    \/ \E a \in Agents : ReleaseDelete(a)
    \/ Tick

SpecDag == InitRecord /\ [][NextDag]_vars

-----------------------------------------------------------------------------
(* runtime.py: the agent loop with PAUSE, RESUME and DROP-TASK directives and
   the goal-wide spending-cap backoff *)

\* the heartbeat files the operator may have written when an agent polls
Directive(command, args) == [command |-> command, args |-> args]

DirectiveFiles ==
    {<<Directive("PAUSE", << >>)>>,
     <<Directive("RESUME", << >>)>>,
     <<Directive("PAUSE", << >>), Directive("RESUME", << >>)>>,
     <<Directive("RESUME", << >>), Directive("PAUSE", << >>)>>,
     <<Directive("DROP-TASK", <<"D">>)>>,
     <<Directive("DROP-TASK", << >>)>>,
     <<Directive("PAUSE", << >>), Directive("DROP-TASK", <<"Q">>)>>,
     <<Directive("DROP-TASK", <<"no-such-task">>)>>}

\* a PAUSE that is ignored
pause_ignored(flag, command) == IF command = "RESUME" THEN FALSE ELSE flag

\* apply_directives: what one directive makes of self._paused
apply_pause(flag, command) ==
    IF command = "PAUSE" THEN TRUE
    ELSE IF command = "RESUME" THEN FALSE
    ELSE flag

\* a _drop_task that leaves the owner in the record
drop_task_keeps_owner(a, tk, lk, task_id) ==
    LET state == get_task_state(tk, task_id)
    IN IF state = NoState THEN [task |-> tk, lock |-> lk]
       ELSE [task |-> update_task_state(tk, task_id, [state EXCEPT !.status = READY]),
             lock |-> release_lock(lk, task_id, a)]

\* AgentRuntime._drop_task: the task and lock maps it leaves
drop_task(a, tk, lk, task_id) ==
    LET state == get_task_state(tk, task_id)
    IN IF state = NoState THEN [task |-> tk, lock |-> lk]
       ELSE [task |-> update_task_state(tk, task_id,
                         [state EXCEPT !.status = READY, !.owner = None]),
             lock |-> release_lock(lk, task_id, a)]

\* AgentRuntime.apply_directives over the directives of the file, in order
RECURSIVE apply_directives(_, _, _)
apply_directives(a, st, directives) ==
    IF directives = << >> THEN st
    ELSE LET d == Head(directives)
             dropped == IF d.command = "DROP-TASK" /\ d.args # << >>
                        THEN drop_task(a, st.task, st.lock, d.args[1])
                        ELSE [task |-> st.task, lock |-> st.lock]
         IN apply_directives(a,
                [paused |-> apply_pause(st.paused, d.command),
                 task |-> dropped.task, lock |-> dropped.lock],
                Tail(directives))

\* the last PAUSE or RESUME of the file, or the one before when it has none
LastToggle(previous, directives) ==
    LET toggles == SelectSeq(directives, LAMBDA d : d.command \in {"PAUSE", "RESUME"})
    IN IF toggles = << >> THEN previous ELSE toggles[Len(toggles)].command

\* the heartbeat poll at the top of the loop: poll_heartbeat, apply_directives
Poll(a) ==
    /\ pc[a] = "idle"
    /\ polls < MaxPolls + 1
    /\ \E directives \in DirectiveFiles :
          LET st == apply_directives(a, [paused |-> paused[a], task |-> task, lock |-> lock],
                                     directives)
          IN /\ paused' = [paused EXCEPT ![a] = st.paused]
             /\ task' = st.task
             /\ lock' = st.lock
             /\ last_toggle' = [last_toggle EXCEPT ![a] = LastToggle(@, directives)]
    /\ polls' = polls + 1
    /\ UNCHANGED <<dagNodes, dagDeps, pc, ready_task_ids, ready_nodes, node, resume_reported,
                   spending_cap_until, agent_heartbeat, elevate_dag, creating, cap_until, outer>>

\* a loop that never backs off
never_in_cap_backoff(g) == FALSE

\* get_goal_spending_cap_until and the comparison with now
in_cap_backoff(g) == spending_cap_until[g] > 0

\* the rest of one loop iteration: the heartbeat is published, and unless the
\* agent is paused or the goal backs off, _run_cycle starts with list_ready_tasks
RunLoop(a) ==
    /\ pc[a] = "idle"
    /\ agent_heartbeat' = [agent_heartbeat EXCEPT ![a] = LeaseTTL]
    /\ IF ~paused[a] /\ ~in_cap_backoff(goal_id(a))
       THEN LET res == list_ready_tasks(goal_id(a), task, lock)
            IN /\ task' = res.task
               /\ ready_task_ids' = [ready_task_ids EXCEPT ![a] = res.ready]
               /\ pc' = [pc EXCEPT ![a] = "listed"]
       ELSE UNCHANGED <<task, ready_task_ids, pc>>
    /\ UNCHANGED <<dagNodes, dagDeps, lock, ready_nodes, node, resume_reported, polls,
                   paused, spending_cap_until, last_toggle, elevate_dag, creating, cap_until, outer>>

\* set_goal_spending_cap_until: a later deadline replaces the stored one
set_goal_spending_cap_until(current, wait) == IF current >= wait THEN current ELSE wait

\* the oracle call of the agent hits the provider's spending cap: the callback
\* publishes the deadline and the call sleeps until then before it retries
OnSpendingCap(a) ==
    /\ pc[a] \in {"select", "execute"}
    /\ \E wait \in 1..MaxCapWait :
          spending_cap_until' = [spending_cap_until EXCEPT ![goal_id(a)] =
                                   set_goal_spending_cap_until(@, wait)]
    /\ pc' = [pc EXCEPT ![a] = pc[a] \o "_sleep"]
    /\ UNCHANGED <<dagNodes, dagDeps, task, lock, ready_task_ids, ready_nodes, node,
                   resume_reported, polls, paused, agent_heartbeat, last_toggle,
                   elevate_dag, creating, cap_until, outer>>

\* the sleep is over and the oracle call is retried
Retry(a) ==
    /\ pc[a] \in {"select_sleep", "execute_sleep"}
    /\ ~in_cap_backoff(goal_id(a))
    /\ pc' = [pc EXCEPT ![a] = IF pc[a] = "select_sleep" THEN "select" ELSE "execute"]
    /\ UNCHANGED <<dagNodes, dagDeps, task, lock, ready_task_ids, ready_nodes, node,
                   resume_reported, polls, ctl>>

NextControl ==
    \/ \E a \in Agents : Poll(a)
    \/ \E a \in Agents : RunLoop(a)
    \/ \E a \in Agents : OnSpendingCap(a)
    \/ \E a \in Agents : Retry(a)
    \/ \E a \in Agents : FilterReady(a)
    \/ \E a \in Agents : Select(a)
    \/ \E a \in Agents : Acquire(a)
    \/ \E a \in Agents : Denied(a)
    \/ \E a \in Agents : MarkRunning(a)
    \/ \E a \in Agents : Finish(a, 0)
    \/ \E a \in Agents : ReleaseRead(a)
    \/ \E a \in Agents : ReleaseDelete(a)
    \/ Tick

SpecControl == Init /\ [][NextControl]_vars

-----------------------------------------------------------------------------
(* The spending-cap callback command by command: _on_spending_cap computes the
   deadline, set_goal_spending_cap_until reads the clock and GETs the stored
   deadline, and its SET is a separate command *)

\* the position of the oracle call that hit the cap
CapCall(a) == IF pc[a] \in {"select", "select_cap", "select_cap_set"} THEN "select"
              ELSE "execute"

\* _on_spending_cap: until = now + wait_seconds, for the wait the message gives
CapCallback(a) ==
    /\ pc[a] \in {"select", "execute"}
    /\ \E wait \in 1..MaxCapWait : cap_until' = [cap_until EXCEPT ![a] = wait]
    /\ pc' = [pc EXCEPT ![a] = CapCall(a) \o "_cap"]
    /\ UNCHANGED <<dagNodes, dagDeps, task, lock, ready_task_ids, ready_nodes, node,
                   resume_reported, polls, paused, spending_cap_until, agent_heartbeat,
                   last_toggle, elevate_dag, creating, outer>>

\* set_goal_spending_cap_until up to its SET: a deadline that is not after now
\* clears the key, a stored deadline that is not earlier is kept
CapGet(a) ==
    /\ pc[a] \in {"select_cap", "execute_cap"}
    /\ LET g == goal_id(a)
           until == cap_until[a]
       IN IF until <= 0
          THEN /\ spending_cap_until' = [spending_cap_until EXCEPT ![g] = 0]
               /\ cap_until' = [cap_until EXCEPT ![a] = NoUntil]
               /\ pc' = [pc EXCEPT ![a] = CapCall(a) \o "_sleep"]
          ELSE IF in_cap_backoff(g) /\ spending_cap_until[g] >= until
          THEN /\ cap_until' = [cap_until EXCEPT ![a] = NoUntil]
               /\ pc' = [pc EXCEPT ![a] = CapCall(a) \o "_sleep"]
               /\ UNCHANGED spending_cap_until
          ELSE /\ pc' = [pc EXCEPT ![a] = CapCall(a) \o "_cap_set"]
               /\ UNCHANGED <<spending_cap_until, cap_until>>
    /\ UNCHANGED <<dagNodes, dagDeps, task, lock, ready_task_ids, ready_nodes, node,
                   resume_reported, polls, paused, agent_heartbeat, last_toggle,
                   elevate_dag, creating, outer>>

\* set_goal_spending_cap_until: SET key until PX ttl. A deadline that has
\* passed by now is stored all the same and reads back as no deadline
CapSet(a) ==
    /\ pc[a] \in {"select_cap_set", "execute_cap_set"}
    /\ spending_cap_until' = [spending_cap_until EXCEPT ![goal_id(a)] = cap_until[a]]
    /\ cap_until' = [cap_until EXCEPT ![a] = NoUntil]
    /\ pc' = [pc EXCEPT ![a] = CapCall(a) \o "_sleep"]
    /\ UNCHANGED <<dagNodes, dagDeps, task, lock, ready_task_ids, ready_nodes, node,
                   resume_reported, polls, paused, agent_heartbeat, last_toggle,
                   elevate_dag, creating, outer>>

NextCap ==
    \/ \E a \in Agents : ListReady(a)
    \/ \E a \in Agents : FilterReady(a)
    \/ \E a \in Agents : Select(a)
    \/ \E a \in Agents : Acquire(a)
    \/ \E a \in Agents : Denied(a)
    \/ \E a \in Agents : MarkRunning(a)
    \/ \E a \in Agents : Finish(a, 0)
    \/ \E a \in Agents : ReleaseRead(a)
    \/ \E a \in Agents : ReleaseDelete(a)
    \/ \E a \in Agents : CapCallback(a)
    \/ \E a \in Agents : CapGet(a)
    \/ \E a \in Agents : CapSet(a)
    \/ \E a \in Agents : Retry(a)
    \/ Tick

SpecCap == Init /\ [][NextCap]_vars

-----------------------------------------------------------------------------
(* AgentRuntime.run from its first iteration to its return: the loop
   condition, stop(), the errors that leave _run_cycle before its try block,
   and the shutdown statements after the loop *)

\* whether the while condition of run() holds for agent a
loop_continues(a) == active[a] /\ cycles[a] < MaxCycles

\* one iteration starts: the heartbeat is published and _run_cycle calls
\* list_ready_tasks, which returns or raises (store error, invalid DAG)
Iterate(a) ==
    /\ pc[a] = "idle"
    /\ loop_continues(a)
    /\ cycles' = [cycles EXCEPT ![a] = @ + 1]
    /\ agent_heartbeat' = [agent_heartbeat EXCEPT ![a] = LeaseTTL]
    /\ \/ LET res == list_ready_tasks(goal_id(a), task, lock)
          IN /\ task' = res.task
             /\ ready_task_ids' = [ready_task_ids EXCEPT ![a] = res.ready]
             /\ pc' = [pc EXCEPT ![a] = "listed"]
       \/ /\ pc' = [pc EXCEPT ![a] = "raised"]
          /\ UNCHANGED <<task, ready_task_ids>>
    /\ UNCHANGED <<dagNodes, dagDeps, lock, ready_nodes, node, resume_reported, polls,
                   paused, spending_cap_until, last_toggle, elevate_dag, creating, cap_until,
                   active, registration, memory_snapshot, coord, llm>>

\* select_next_task raises (the CLI failed, or no valid JSON after the retries):
\* nothing in _run_cycle or run() catches it
SelectRaises(a) ==
    /\ pc[a] = "select"
    /\ pc' = [pc EXCEPT ![a] = "raised"]
    /\ ready_nodes' = [ready_nodes EXCEPT ![a] = << >>]
    /\ UNCHANGED <<dagNodes, dagDeps, task, lock, ready_task_ids, node, resume_reported,
                   polls, ctl>>

\* AgentRuntime.stop, from the process that owns the runtime
Stop(a) ==
    /\ active[a]
    /\ pc[a] \notin {"stopped", "raised"}
    /\ active' = [active EXCEPT ![a] = FALSE]
    /\ UNCHANGED <<dagNodes, dagDeps, task, lock, pc, ready_task_ids, ready_nodes, node,
                   resume_reported, polls, paused, spending_cap_until, agent_heartbeat,
                   last_toggle, elevate_dag, creating, cap_until, cycles, registration,
                   memory_snapshot, coord, llm>>

\* the statements after the loop: store_memory_snapshot, deregister_agent
Shutdown(a) ==
    /\ pc[a] = "idle"
    /\ ~loop_continues(a)
    /\ memory_snapshot' = [memory_snapshot EXCEPT ![a] = TRUE]
    /\ registration' = [registration EXCEPT ![a] = FALSE]
    /\ agent_heartbeat' = [agent_heartbeat EXCEPT ![a] = 0]
    /\ pc' = [pc EXCEPT ![a] = "stopped"]
    /\ UNCHANGED <<dagNodes, dagDeps, task, lock, ready_task_ids, ready_nodes, node,
                   resume_reported, polls, paused, spending_cap_until, last_toggle,
                   elevate_dag, creating, cap_until, active, cycles, coord, llm>>

NextRun ==
    \/ \E a \in Agents : Iterate(a)
    \/ \E a \in Agents : SelectRaises(a)
    \/ \E a \in Agents : Stop(a)
    \/ \E a \in Agents : Shutdown(a)
    \/ \E a \in Agents : FilterReady(a)
    \/ \E a \in Agents : Select(a)
    \/ \E a \in Agents : Acquire(a)
    \/ \E a \in Agents : Denied(a)
    \/ \E a \in Agents : MarkRunning(a)
    \/ \E a \in Agents : Finish(a, 0)
    \/ \E a \in Agents : ReleaseRead(a)
    \/ \E a \in Agents : ReleaseDelete(a)
    \/ Tick

SpecRun == Init /\ [][NextRun]_vars

-----------------------------------------------------------------------------
(* orchestrator.py: the coordinator's reconcile cycle. It parses the instruction
   file, plans the goal when the store has no DAG for it (create_goal_dag,
   _apply_role_workflow, _validate_dag, write_dag), recovers stale tasks once,
   spawns the declared agents and forgets the ones no longer declared *)

\* os.getpid() of the coordinator
OrchestratorPid == 1

\* AgentDescriptor, by name and declared role ("" for none)
Descriptor(name, role) == [name |-> name, role |-> role]

\* the agents an instruction file may declare, in the order it lists them
Declared ==
    <<Descriptor("owner", "owner"), Descriptor("team-lead", "team-lead"),
      Descriptor("a1", "features-dev"), Descriptor("a2", "qa-dev")>>

\* the descriptors parse_agents may return: any of them left out
InstructionFiles ==
    LET RECURSIVE Pick(_, _)
        Pick(S, i) == IF i > Len(Declared) THEN << >>
                      ELSE (IF i \in S THEN <<Declared[i]>> ELSE << >>) \o Pick(S, i + 1)
    IN {Pick(S, 1) : S \in SUBSET (1..Len(Declared))}

\* AgentDescriptor.effective_role
effective_role(d) == IF d.role # "" THEN d.role ELSE d.name

\* Orchestrator._classify_agent: the declared role decides, then the tokens of
\* the agent's name and file names
classify_agent(d) ==
    IF d.role \in {"manager", "owner", "team-lead", "lead"} THEN "manager"
    ELSE IF d.role \in {"reviewer", "qa", "qa-dev", "tester"} THEN "reviewer"
    ELSE IF d.name \in {"owner", "lead", "manager", "team-lead"} THEN "manager"
    ELSE IF d.name \in {"qa", "test", "validator", "review"} THEN "reviewer"
    ELSE "builder"

\* the keys of role_classification with the given category, in insertion
\* order; a role declared twice keeps its first place and its last category
RECURSIVE roles_of(_, _, _)
roles_of(agents, i, category) ==
    IF i > Len(agents) THEN << >>
    ELSE LET role == effective_role(agents[i])
             last == CHOOSE j \in i..Len(agents) :
                        /\ effective_role(agents[j]) = role
                        /\ \A k \in (j + 1)..Len(agents) : effective_role(agents[k]) # role
             first == \A j \in 1..(i - 1) : effective_role(agents[j]) # role
         IN (IF first /\ classify_agent(agents[last]) = category THEN <<role>> ELSE << >>)
            \o roles_of(agents, i + 1, category)

\* dict.setdefault on node.metadata
SetDefault(metadata, key, value) ==
    IF key \in DOMAIN metadata THEN metadata ELSE MetaSet(metadata, key, value)

\* the nodes and edges _apply_role_workflow appends for the node at position
\* index (from 0) of the oracle's DAG
workflow_block(n, index, builder_roles, qa_role, lead_role) ==
    LET m1 == SetDefault(n.metadata, "phase", "development")
        m2 == SetDefault(m1, "review_cycle", "0")
        m3 == SetDefault(m2, "required_role",
                         builder_roles[(index % Len(builder_roles)) + 1])
        m4 == SetDefault(m3, "dev_role", m3["required_role"])
        metadata == IF lead_role # "" THEN SetDefault(m4, "manager_role", lead_role) ELSE m4
        qa_id == n.id \o "__qa"
        integration_id == n.id \o "__integrate"
        qa_node == TaskNode(qa_id, n.priority,
                       [phase |-> "qa", required_role |-> qa_role, parent_task_id |-> n.id,
                        review_cycle |-> "0", dev_role |-> metadata["dev_role"],
                        manager_role |-> lead_role])
        integration_node == TaskNode(integration_id, n.priority,
                       [phase |-> "integration", required_role |-> lead_role,
                        parent_task_id |-> n.id, manager_role |-> lead_role])
        previous == IF qa_role # "" THEN qa_id ELSE n.id
    IN [nodes |-> <<[n EXCEPT !.metadata = metadata]>>
                  \o (IF qa_role # "" THEN <<qa_node>> ELSE << >>)
                  \o (IF lead_role # "" THEN <<integration_node>> ELSE << >>),
        edges |-> (IF qa_role # "" THEN {<<n.id, qa_id>>} ELSE {})
                  \cup (IF lead_role # "" THEN {<<previous, integration_id>>} ELSE {})]

\* Orchestrator._apply_role_workflow
apply_role_workflow(dag, agents) ==
    LET manager_roles == roles_of(agents, 1, "manager")
        reviewer_roles == roles_of(agents, 1, "reviewer")
        declared_builders == roles_of(agents, 1, "builder")
        builder_roles == IF declared_builders = << >> THEN <<effective_role(agents[1])>>
                         ELSE declared_builders
        qa_role == IF reviewer_roles # << >> THEN reviewer_roles[1] ELSE ""
        lead_role == IF manager_roles # << >> THEN manager_roles[1] ELSE ""
        block(i) == workflow_block(dag.nodes[i], i - 1, builder_roles, qa_role, lead_role)
        RECURSIVE Nodes(_)
        Nodes(i) == IF i > Len(dag.nodes) THEN << >> ELSE block(i).nodes \o Nodes(i + 1)
    IN [goal_id |-> dag.goal_id,
        nodes |-> Nodes(1),
        edges |-> dag.edges \cup UNION {block(i).edges : i \in 1..Len(dag.nodes)}]

\* the ids reachable from id along the edges in at most n steps
Reach(edges, id, n) ==
    LET RECURSIVE Down(_, _)
        Down(ids, k) == IF k = 0 THEN ids
                        ELSE Down(ids \cup {e[2] : e \in {x \in edges : x[1] \in ids}}, k - 1)
    IN Down({e[2] : e \in {x \in edges : x[1] = id}}, n)

\* whether Orchestrator._validate_dag raises ValueError: an edge without its
\* node, or a cycle
validate_dag_raises(dag) ==
    \/ ~dag_validates(dag)
    \/ \E id \in NodeIds(dag.nodes) : id \in Reach(dag.edges, id, Len(dag.nodes))

\* the return values of create_goal_dag: ids, edges and metadata are the oracle's
OracleDags ==
    {[goal_id |-> "g1", nodes |-> <<TaskNode("A", 1, << >>)>>, edges |-> {}],
     [goal_id |-> "g1", nodes |-> <<TaskNode("A", 1, << >>), TaskNode("B", 1, << >>)>>,
      edges |-> {<<"A", "B">>}],
     [goal_id |-> "g1", nodes |-> <<TaskNode("A", 1, << >>), TaskNode("A__qa", 1, << >>)>>,
      edges |-> {}],
     [goal_id |-> "g1", nodes |-> <<TaskNode("A", 1, << >>), TaskNode("A__qa", 1, << >>)>>,
      edges |-> {<<"A__qa", "A">>}],
     [goal_id |-> "g1",
      nodes |-> <<TaskNode("A", 1, [phase |-> "development", required_role |-> "qa-dev"])>>,
      edges |-> {}]}

\* Orchestrator._is_owner and _is_team_lead
is_owner(d) == d.role = "owner" \/ d.name = "owner"
is_team_lead(d) == d.role \in {"team-lead", "lead"} \/ d.name \in {"team-lead", "teamlead", "lead"}

\* Orchestrator._ensure_agent_spawn on the remembered PIDs and the supervisor's
\* record of its spawn calls; a new PID is one the supervisor has not given out
ensure_agent_spawn(st, d, parent_pid) ==
    IF d.name \in DOMAIN st.spawned THEN st
    ELSE LET calls == st.spawn_calls
             pid == OrchestratorPid + 1
                    + Cardinality(UNION {{<<n, i>> : i \in 1..Len(calls[n])} :
                                            n \in DOMAIN calls})
             before == IF d.name \in DOMAIN calls THEN calls[d.name] ELSE << >>
         IN [spawned |-> [n \in DOMAIN st.spawned \cup {d.name} |->
                             IF n = d.name THEN pid ELSE st.spawned[n]],
             spawn_calls |-> [n \in DOMAIN calls \cup {d.name} |->
                                 IF n = d.name
                                 THEN Append(before, [pid |-> pid, parent_pid |-> parent_pid])
                                 ELSE calls[n]]]

\* the first element of the sequence that satisfies the test, as a sequence of
\* at most one element (next(..., None))
FirstOf(seq, Test(_)) ==
    LET found == SelectSeq(seq, Test) IN IF found = << >> THEN << >> ELSE <<found[1]>>

\* Orchestrator._spawn_agents_hierarchy: owner, then team lead, then the rest
spawn_agents_hierarchy(st, agents) ==
    LET owner == FirstOf(agents, is_owner)
        IsLead(d) == is_team_lead(d) /\ (owner = << >> \/ d.name # owner[1].name)
        team_lead == FirstOf(agents, IsLead)
        st1 == IF owner # << >> THEN ensure_agent_spawn(st, owner[1], OrchestratorPid) ELSE st
        owner_pid == IF owner # << >> THEN st1.spawned[owner[1].name] ELSE OrchestratorPid
        st2 == IF team_lead # << >> THEN ensure_agent_spawn(st1, team_lead[1], owner_pid)
               ELSE st1
        team_lead_pid == IF team_lead # << >> THEN st2.spawned[team_lead[1].name]
                         ELSE owner_pid
        IsWorker(d) == /\ (owner = << >> \/ d.name # owner[1].name)
                       /\ (team_lead = << >> \/ d.name # team_lead[1].name)
        workers == SelectSeq(agents, IsWorker)
        RECURSIVE Workers(_, _)
        Workers(state, i) ==
            IF i > Len(workers) THEN state
            ELSE Workers(ensure_agent_spawn(state, workers[i], team_lead_pid), i + 1)
    IN Workers(st2, 1)

\* Orchestrator._process_cycle, one iteration of Orchestrator.run: the agents
\* parsed from the file, and the DAG the oracle returns when the goal has none.
\* An error of _validate_dag leaves the cycle and run()
ProcessCycle ==
    /\ coordinator = "running"
    /\ reconciles < MaxReconciles
    /\ reconciles' = reconciles + 1
    /\ \E agents \in InstructionFiles :
       \E dag \in IF agents # << >> /\ read_dag("g1") = NoDag THEN OracleDags ELSE {NoDag} :
          LET g == "g1"
              plans == dag # NoDag
              names == {agents[i].name : i \in 1..Len(agents)}
          IN /\ goal_agents' = IF plans THEN agents ELSE goal_agents
             /\ oracle_dag' = IF plans THEN dag ELSE oracle_dag
             /\ planned_dag' = IF plans THEN apply_role_workflow(dag, agents) ELSE planned_dag
             /\ coordinator' = IF plans /\ validate_dag_raises(planned_dag') THEN "raised"
                               ELSE "running"
             /\ dagNodes' = IF plans /\ coordinator' = "running"
                            THEN [dagNodes EXCEPT ![g] = planned_dag'.nodes] ELSE dagNodes
             /\ dagDeps' = IF plans /\ coordinator' = "running"
                           THEN [dagDeps EXCEPT ![g] = write_dag_deps(planned_dag')]
                           ELSE dagDeps
             /\ resume_reported' = IF agents # << >> /\ coordinator' = "running"
                                   THEN resume_reported \cup {g} ELSE resume_reported
             /\ task' = IF plans /\ coordinator' = "running"
                        THEN write_dag_task(task, planned_dag')
                        ELSE IF resume_reported' # resume_reported
                        THEN recover_stale_tasks(g, task, lock).task
                        ELSE task
             /\ spawn_calls' = IF coordinator' = "raised" THEN spawn_calls
                               ELSE spawn_agents_hierarchy(
                                       [spawned |-> spawned, spawn_calls |-> spawn_calls],
                                       agents).spawn_calls
             /\ spawned' = IF coordinator' = "raised" THEN spawned
                           ELSE [n \in DOMAIN spawn_calls' \cap names |->
                                   IF n \in DOMAIN spawned THEN spawned[n]
                                   ELSE spawn_calls'[n][Len(spawn_calls'[n])].pid]
    /\ UNCHANGED <<lock, pc, ready_task_ids, ready_nodes, node, polls, paused,
                   spending_cap_until, agent_heartbeat, last_toggle, elevate_dag, creating,
                   cap_until, loop, llm>>

\* parse_agents raises ValueError: the cycle ends where it began
ParseFails ==
    /\ coordinator = "running"
    /\ reconciles < MaxReconciles
    /\ reconciles' = reconciles + 1
    /\ UNCHANGED <<dagNodes, dagDeps, task, lock, pc, ready_task_ids, ready_nodes, node,
                   resume_reported, polls, paused, spending_cap_until, agent_heartbeat,
                   last_toggle, elevate_dag, creating, cap_until, loop, spawned, spawn_calls,
                   coordinator, goal_agents, oracle_dag, planned_dag, llm>>

\* the store before any goal was planned
InitCoord ==
    /\ dagNodes = [g \in Goals |-> << >>]
    /\ dagDeps = [g \in Goals |-> << >>]
    /\ task = << >>
    /\ lock = << >>
    /\ pc = [a \in Agents |-> "idle"]
    /\ ready_task_ids = [a \in Agents |-> << >>]
    /\ ready_nodes = [a \in Agents |-> << >>]
    /\ node = [a \in Agents |-> NoNode]
    /\ resume_reported = {}
    /\ polls = 0
    /\ InitControl

NextCoord ==
    \/ ProcessCycle
    \/ ParseFails

SpecCoord == InitCoord /\ [][NextCoord]_vars

-----------------------------------------------------------------------------
(* llm.py: ClaudeCLIClient._invoke_json_with_retries, one JSON call of the
   oracle.  The call is cut at the provider processes _invoke starts.  A
   provider text is [wrapped, value, object]: the kind of JSON value it holds
   ("blank" for whitespace, "text" for something that is not JSON), whether
   prose surrounds the value, and the object itself when it is one. *)

required_keys == {"k1", "k2"}

OriginalPrompt == [text |-> "prompt"]

Object(keys) == [k \in keys |-> "v"]

ProviderText(wrapped, value, object) ==
    [wrapped |-> wrapped, value |-> value, object |-> object]

\* what a provider process that exits with 0 may print
Responses ==
    {ProviderText(FALSE, "blank", << >>), ProviderText(FALSE, "text", << >>)}
        \cup {ProviderText(w, "array", << >>) : w \in BOOLEAN}
        \cup {ProviderText(FALSE, "object", Object(keys)) :
                 keys \in {required_keys, {"k1"}, required_keys \cup {"x"}, {"k1", "x"}}}
        \cup {ProviderText(TRUE, "object", Object(keys)) : keys \in {required_keys, {"k2"}}}

\* _parse_json: [payload] or [error]
parse_json(text) ==
    IF text.value = "blank" THEN [error |-> "Claude CLI returned empty output"]
    ELSE IF ~text.wrapped /\ text.value = "object" THEN [payload |-> text.object]
    ELSE IF ~text.wrapped /\ text.value = "array"
         THEN [error |-> "Claude CLI returned JSON that is not an object"]
    \* json.loads failed: the text between the first { and the last }
    ELSE IF text.value = "object" THEN [payload |-> text.object]
    ELSE [error |-> "Failed to parse Claude CLI output as JSON"]

\* the mutation of _validate_payload_keys that tolerates extra keys
validate_payload_keys_missing_only(payload, keys) ==
    keys \ DOMAIN payload # {}

\* _validate_payload_keys: whether it raises ValueError
validate_payload_keys(payload, keys) ==
    LET actual_keys == DOMAIN payload
        missing == keys \ actual_keys
        extra == actual_keys \ keys
    IN missing # {} \/ extra # {}

\* _build_repair_prompt
build_repair_prompt(original_prompt, bad_output, keys) ==
    [required |-> keys, original_prompt |-> original_prompt, bad_output |-> bad_output]

\* the try block of one attempt: whether it raises ValueError
attempt_raises(text) ==
    \/ "error" \in DOMAIN parse_json(text)
    \/ validate_payload_keys(parse_json(text).payload, required_keys)

\* str.lower on the period the pattern captured
lower(period) == IF period \in {"AM", "am"} THEN "am" ELSE "pm"

\* what _RESET_TIME_PATTERN captured: hour, optional minute, period
ResetTime(hour, minute, period) == [hour |-> hour, minute |-> minute, period |-> period]

\* spending-cap texts: with a reset time, and without one the pattern matches
ResetMessages ==
    {ResetTime(h, m, p) : h \in {0, 1, 8, 12, 13}, m \in {<< >>, <<0>>, <<59>>, <<60>>},
                          p \in {"am", "pm", "PM"}}
        \cup {NoResetTime}

Clock(hour, minute, second, half) ==
    [hour |-> hour, minute |-> minute, second |-> second, half |-> half]

\* local times at which the provider reports the cap
Clocks ==
    {Clock(0, 0, 0, 0), Clock(0, 0, 0, 1), Clock(0, 59, 59, 1), Clock(1, 0, 0, 0),
     Clock(11, 59, 59, 1), Clock(12, 0, 0, 0), Clock(12, 59, 0, 0), Clock(19, 59, 59, 1),
     Clock(20, 0, 0, 0), Clock(20, 0, 0, 1), Clock(23, 59, 59, 1)}

\* a local time as half seconds since midnight
HalfSeconds(hour, minute, second, half) == ((hour * 60 + minute) * 60 + second) * 2 + half

\* the mutation that keeps today's occurrence when it is exactly now
seconds_until_local_reset_no_roll_at_now(text, now) ==
    IF text = NoResetTime THEN << >>
    ELSE LET hour == text.hour
             minute == IF text.minute = << >> THEN 0 ELSE text.minute[1]
         IN IF hour < 1 \/ hour > 12 \/ minute < 0 \/ minute > 59 THEN << >>
            ELSE LET hour_24 == (hour % 12) + (IF lower(text.period) = "pm" THEN 12 ELSE 0)
                     local == HalfSeconds(now.hour, now.minute, now.second, now.half)
                     reset_at == HalfSeconds(hour_24, minute, 0, 0)
                 IN << IF reset_at < local THEN reset_at + HalfSecondsPerDay - local
                       ELSE reset_at - local >>

\* _seconds_until_local_reset_from_message: << >> for None
seconds_until_local_reset_from_message(text, now) ==
    IF text = NoResetTime THEN << >>
    ELSE LET hour == text.hour
             minute == IF text.minute = << >> THEN 0 ELSE text.minute[1]
         IN IF hour < 1 \/ hour > 12 \/ minute < 0 \/ minute > 59 THEN << >>
            ELSE LET period_normalized == lower(text.period)
                     hour_24 == (hour % 12) + (IF period_normalized = "pm" THEN 12 ELSE 0)
                     local == HalfSeconds(now.hour, now.minute, now.second, now.half)
                     reset_at == HalfSeconds(hour_24, minute, 0, 0)
                 IN << IF reset_at <= local THEN reset_at + HalfSecondsPerDay - local
                       ELSE reset_at - local >>

\* _invoke_json_with_retries is entered
InvokeJson ==
    /\ oracle_pc = "idle"
    /\ oracle_pc' = "invoke"
    /\ json_attempt' = 1
    /\ current_prompt' = OriginalPrompt
    /\ UNCHANGED <<launches, last_raw, json_result, cap_message, local_now, wait_seconds>>

\* the provider process exits with 0: _invoke returns its stdout, and the
\* attempt returns the payload, builds the repair prompt or gives up
ProviderReturns(text) ==
    /\ oracle_pc = "invoke"
    /\ launches < MaxLaunches
    /\ launches' = launches + 1
    /\ last_raw' = text
    /\ IF ~attempt_raises(text)
       THEN /\ json_result' = parse_json(text).payload
            /\ oracle_pc' = "returned"
            /\ UNCHANGED <<json_attempt, current_prompt>>
       ELSE IF json_attempt >= MaxAttempts
       THEN /\ oracle_pc' = "ValueError"
            /\ UNCHANGED <<json_attempt, current_prompt, json_result>>
       ELSE /\ current_prompt' = build_repair_prompt(OriginalPrompt, text, required_keys)
            /\ json_attempt' = json_attempt + 1
            /\ UNCHANGED <<oracle_pc, json_result>>
    /\ UNCHANGED <<cap_message, local_now, wait_seconds>>

\* the provider process fails with "spending cap reached": with a reset time
\* _invoke sleeps and starts the process again, without one it raises
ProviderCapped(text, now) ==
    /\ oracle_pc = "invoke"
    /\ launches < MaxLaunches
    /\ launches' = launches + 1
    /\ cap_message' = text
    /\ local_now' = now
    /\ wait_seconds' = seconds_until_local_reset_from_message(text, now)
    /\ oracle_pc' = IF wait_seconds' = << >> THEN "RuntimeError" ELSE "sleep"
    /\ UNCHANGED <<json_attempt, current_prompt, last_raw, json_result>>

\* time.sleep(wait_seconds) returns: continue
SleepEnds ==
    /\ oracle_pc = "sleep"
    /\ oracle_pc' = "invoke"
    /\ cap_message' = NoResetTime
    /\ local_now' = NoClock
    /\ wait_seconds' = << >>
    /\ UNCHANGED <<json_attempt, current_prompt, launches, last_raw, json_result>>

\* the provider process times out or fails otherwise: RuntimeError
ProviderFails ==
    /\ oracle_pc = "invoke"
    /\ launches < MaxLaunches
    /\ launches' = launches + 1
    /\ oracle_pc' = "RuntimeError"
    /\ UNCHANGED <<json_attempt, current_prompt, last_raw, json_result, cap_message, local_now,
                   wait_seconds>>

OracleFrame ==
    UNCHANGED <<dagNodes, dagDeps, task, lock, pc, ready_task_ids, ready_nodes, node,
                resume_reported, polls, paused, spending_cap_until, agent_heartbeat,
                last_toggle, elevate_dag, creating, cap_until, loop, coord>>

NextOracle ==
    \/ InvokeJson /\ OracleFrame
    \/ \E text \in Responses : ProviderReturns(text) /\ OracleFrame
    \/ \E text \in ResetMessages, now \in Clocks : ProviderCapped(text, now) /\ OracleFrame
    \/ SleepEnds /\ OracleFrame
    \/ ProviderFails /\ OracleFrame

SpecOracle == InitCoord /\ [][NextOracle]_vars

-----------------------------------------------------------------------------
(* runtime.py: the outcome of a task whose failure text is longer than 600
   characters, recorded from the states of InitRecord *)

\* execute_task raises with such a text, or returns failed with such notes
LongExecutions ==
    [raises : {TRUE}, status : {"done"}, outputs : {<< >>}, notes : {""},
     summary : Summaries, error : {LongText}, assess : Assessments]
    \cup
    [raises : {FALSE}, status : {"failed", "blocked"}, outputs : {<< >>},
     notes : {LongText}, summary : Summaries, error : {""}, assess : Assessments]

\* the rest of _run_cycle after such an execution
FinishLong(a) ==
    /\ pc[a] = "execute"
    /\ \E x \in LongExecutions :
          LET g == goal_id(a)
              st == record_outcome(a, Store(g), node[a], x)
          IN /\ dagNodes' = [dagNodes EXCEPT ![g] = st.nodes]
             /\ dagDeps' = [dagDeps EXCEPT ![g] = st.deps]
             /\ task' = st.task
    /\ pc' = [pc EXCEPT ![a] = "release"]
    /\ UNCHANGED <<lock, ready_task_ids, ready_nodes, node, resume_reported, polls, ctl>>

NextLastError ==
    \/ \E a \in Agents : Finish(a, Len(dagNodes[goal_id(a)]) + 1)
    \/ \E a \in Agents : FinishLong(a)
    \/ \E a \in Agents : ReleaseRead(a)
    \/ \E a \in Agents : ReleaseDelete(a)
    \/ Tick

SpecLastError == InitRecord /\ [][NextLastError]_vars

-----------------------------------------------------------------------------
(* The work cycles of live agents after a crash: the process that ran task T
   died after its RUNNING write and every agent process is up (again).  The
   oracle of a live agent selects one of the nodes it is offered and returns
   done. *)

\* select_next_task returns the id of an offered node
SelectOffered(a) ==
    /\ pc[a] = "select"
    /\ \E selected_task_id \in {ready_nodes[a][i] : i \in 1..Len(ready_nodes[a])} :
          LET n == get_task_node(dagNodes[goal_id(a)], selected_task_id)
          IN IF n # NoNode /\ is_node_eligible(a, n, task)
             THEN /\ pc' = [pc EXCEPT ![a] = "acquire"]
                  /\ node' = [node EXCEPT ![a] = n]
             ELSE /\ pc' = [pc EXCEPT ![a] = "idle"]
                  /\ UNCHANGED node
    /\ ready_nodes' = [ready_nodes EXCEPT ![a] = << >>]
    /\ UNCHANGED <<dagNodes, dagDeps, task, lock, ready_task_ids, resume_reported, polls, ctl>>

\* execute_task returns done and the outcome is recorded
FinishDone(a) ==
    /\ pc[a] = "execute"
    /\ \E x \in {e \in Executions : ~e.raises /\ e.status = "done"} :
          LET g == goal_id(a)
              st == record_outcome(a, Store(g), node[a], x)
          IN /\ dagNodes' = [dagNodes EXCEPT ![g] = st.nodes]
             /\ dagDeps' = [dagDeps EXCEPT ![g] = st.deps]
             /\ task' = st.task
    /\ pc' = [pc EXCEPT ![a] = "release"]
    /\ UNCHANGED <<lock, ready_task_ids, ready_nodes, node, resume_reported, polls, ctl>>

\* T was marked RUNNING by an agent whose process is gone: its lock is still
\* there, or has run out before the lease, or both have run out
InitStale ==
    \E metadata \in PhaseMetadata, owner \in Agents, left \in {"lock", "lease", "nothing"} :
        LET dag == [goal_id |-> "g1", nodes |-> <<TaskNode("T", 1, metadata)>>, edges |-> {}]
            lease_expires == IF left = "nothing" THEN 0 ELSE LeaseTTL
        IN /\ dagNodes = [g \in Goals |-> dag.nodes]
           /\ dagDeps = [g \in Goals |-> write_dag_deps(dag)]
           /\ task = update_task_state(write_dag_task(<< >>, dag), "T",
                                       as_running(TaskState(READY), owner, lease_expires))
           /\ lock = IF left = "lock" THEN acquire_lock(<< >>, "T", owner, LeaseTTL).lock
                     ELSE << >>
           /\ pc = [a \in Agents |-> "idle"]
           /\ ready_task_ids = [a \in Agents |-> << >>]
           /\ ready_nodes = [a \in Agents |-> << >>]
           /\ node = [a \in Agents |-> NoNode]
           /\ resume_reported = {}
           /\ polls = 0
           /\ InitControl

\* a step of the work cycle of a live agent
LiveStep(a) ==
    \/ ListReady(a)
    \/ FilterReady(a)
    \/ SelectOffered(a)
    \/ Acquire(a)
    \/ Denied(a)
    \/ MarkRunning(a)
    \/ FinishDone(a)
    \/ ReleaseRead(a)
    \/ ReleaseDelete(a)

NextStale ==
    \/ \E a \in Agents : LiveStep(a)
    \/ Tick
    \/ \E g \in Goals : ReportResumeState(g)

\* AgentRuntime.run keeps starting work cycles and time passes
SpecStale ==
    /\ InitStale
    /\ [][NextStale]_vars
    /\ \A a \in Agents : WF_vars(LiveStep(a))
    /\ WF_vars(Tick)

-----------------------------------------------------------------------------
(* Stale recovery on the stores a history of cycles and crashes may have     *)
(* left: the coordinator's startup recovery calls recover_stale_tasks        *)

NextRecover ==
    \/ \E g \in Goals : ReportResumeState(g)
    \/ Tick

SpecRecover == InitReady /\ [][NextRecover]_vars

-----------------------------------------------------------------------------
(* The coordinator restarted on a goal whose DAG is stored: task T was left  *)
(* RUNNING by an agent process that is gone                                   *)

NextResume ==
    \/ ProcessCycle
    \/ ParseFails
    \/ Tick

SpecResume == InitStale /\ [][NextResume]_vars

-----------------------------------------------------------------------------
(* Two goals in one store: goal g1 is under way with the agents of the model,
   and the coordinator plans goal g2, for which the oracle is free to use
   node ids that g1 uses as well *)

BothGoals == {"g1", "g2"}

\* the return values of create_goal_dag for g2
OtherGoalDags ==
    {[goal_id |-> "g2", nodes |-> <<TaskNode("D", 1, << >>)>>, edges |-> {}],
     [goal_id |-> "g2", nodes |-> <<TaskNode("X", 1, << >>)>>, edges |-> {}],
     [goal_id |-> "g2", nodes |-> <<TaskNode("X", 1, << >>), TaskNode("D", 1, << >>)>>,
      edges |-> {<<"X", "D">>}]}

\* Orchestrator._ensure_goal_state for a goal without a DAG: create_goal_dag,
\* _apply_role_workflow, _validate_dag, write_dag and the READY state of the
\* nodes that have none
EnsureGoalState(g) ==
    /\ dagNodes[g] = << >>
    /\ \E agents \in InstructionFiles \ {<< >>}, dag \in OtherGoalDags :
          LET planned == apply_role_workflow(dag, agents)
          IN /\ ~validate_dag_raises(planned)
             /\ dagNodes' = [dagNodes EXCEPT ![g] = planned.nodes]
             /\ dagDeps' = [dagDeps EXCEPT ![g] = write_dag_deps(planned)]
             /\ task' = write_dag_task(task, planned)
    /\ UNCHANGED <<lock, pc, ready_task_ids, ready_nodes, node, resume_reported, polls, ctl>>

InitGoals ==
    /\ dagNodes = [g \in BothGoals |-> IF g = "g1" THEN InitialDag.nodes ELSE << >>]
    /\ dagDeps = [g \in BothGoals |-> IF g = "g1" THEN write_dag_deps(InitialDag) ELSE << >>]
    /\ task = write_dag_task(<< >>, InitialDag)
    /\ lock = << >>
    /\ pc = [a \in Agents |-> "idle"]
    /\ ready_task_ids = [a \in Agents |-> << >>]
    /\ ready_nodes = [a \in Agents |-> << >>]
    /\ node = [a \in Agents |-> NoNode]
    /\ resume_reported = {}
    /\ polls = 0
    /\ InitControl

NextGoals ==
    \/ \E a \in Agents : LiveStep(a)
    \/ Tick
    \/ EnsureGoalState("g2")

SpecGoals == InitGoals /\ [][NextGoals]_vars

-----------------------------------------------------------------------------
(* ELEVATE with any decimal argument: int() accepts a sign, and assigning to
   node.priority does not run the model's validators *)

SignedPriorityArgs == {"2", "-1", "high"}

\* TaskNode.model_validate_json on the stored nodes: priority has Field(ge=0)
nodes_validate(nodes) == \A i \in 1..Len(nodes) : nodes[i].priority >= 0

\* poll_heartbeat finds "ELEVATE <task> <priority>": _elevate_task reads the
\* DAG, which raises on a node that does not validate, sets the priority and
\* writes the DAG back
ElevateSigned(a) ==
    /\ pc[a] = "idle"
    /\ polls < MaxPolls
    /\ read_dag(goal_id(a)) # NoDag
    /\ nodes_validate(dagNodes[goal_id(a)])
    /\ \E task_id \in NodeIds(dagNodes[goal_id(a)]), priority \in SignedPriorityArgs :
          LET dag == elevate_task(read_dag(goal_id(a)), task_id, priority)
          IN /\ dagNodes' = [dagNodes EXCEPT ![goal_id(a)] = dag.nodes]
             /\ dagDeps' = [dagDeps EXCEPT ![goal_id(a)] = write_dag_deps(dag)]
             /\ task' = write_dag_task(task, dag)
    /\ polls' = polls + 1
    /\ UNCHANGED <<lock, pc, ready_task_ids, ready_nodes, node, resume_reported, ctl>>

\* the nodes agent a's next step loads validate: list_ready_tasks reads the
\* whole DAG, the steps after it call get_task_node on the listed ids; a
\* ValidationError leaves _run_cycle and run()
LoadsValidate(a) ==
    LET loaded == IF pc[a] = "idle" THEN NodeIds(dagNodes[goal_id(a)])
                  ELSE IF pc[a] = "listed"
                  THEN {ready_task_ids[a][k] : k \in 1..Len(ready_task_ids[a])}
                  ELSE IF pc[a] = "select"
                  THEN {ready_nodes[a][k] : k \in 1..Len(ready_nodes[a])}
                  ELSE {}
    IN \A i \in 1..Len(dagNodes[goal_id(a)]) :
          dagNodes[goal_id(a)][i].id \in loaded => dagNodes[goal_id(a)][i].priority >= 0

NextElevate ==
    \/ \E a \in Agents : ElevateSigned(a)
    \/ \E a \in Agents : LoadsValidate(a) /\ LiveStep(a)
    \/ Tick

SpecElevate == Init /\ [][NextElevate]_vars

-----------------------------------------------------------------------------
(* A goal from plan to integration: a development task for the builder, its
   QA review for the reviewer and an integration task that states no role,
   and an oracle that selects an offered task, fails a bounded number of QA
   reviews and otherwise returns done *)

\* the number of QA reviews the oracle fails
MaxQaFailures == 1

FlowDag ==
    [goal_id |-> "g1",
     nodes |-> <<TaskNode("D", 1, [phase |-> "development", required_role |-> "features-dev"]),
                 TaskNode("Q", 1, [phase |-> "qa", required_role |-> "qa-dev",
                                   dev_role |-> "features-dev"]),
                 TaskNode("I", 1, [phase |-> "integration"])>>,
     edges |-> {<<"D", "Q">>, <<"Q", "I">>}]

\* execute_task returns done, or qa_failed for a QA task while the oracle has
\* failures left, and the outcome is recorded
FinishFlow(a) ==
    /\ pc[a] = "execute"
    /\ \E x \in {e \in Executions : ~e.raises /\ e.status \in {"done", "qa_failed"}} :
          LET g == goal_id(a)
              st == record_outcome(a, Store(g), node[a], x)
          IN /\ x.status = "qa_failed" =>
                   /\ MetaGet(node[a], "phase", "development") = "qa"
                   /\ Len(dagNodes[g]) < Len(FlowDag.nodes) + MaxQaFailures
             /\ dagNodes' = [dagNodes EXCEPT ![g] = st.nodes]
             /\ dagDeps' = [dagDeps EXCEPT ![g] = st.deps]
             /\ task' = st.task
    /\ pc' = [pc EXCEPT ![a] = "release"]
    /\ UNCHANGED <<lock, ready_task_ids, ready_nodes, node, resume_reported, polls, ctl>>

\* the store after _ensure_goal_state has written the planned DAG
InitFlow ==
    /\ dagNodes = [g \in Goals |-> FlowDag.nodes]
    /\ dagDeps = [g \in Goals |-> write_dag_deps(FlowDag)]
    /\ task = write_dag_task(<< >>, FlowDag)
    /\ lock = << >>
    /\ pc = [a \in Agents |-> "idle"]
    /\ ready_task_ids = [a \in Agents |-> << >>]
    /\ ready_nodes = [a \in Agents |-> << >>]
    /\ node = [a \in Agents |-> NoNode]
    /\ resume_reported = {}
    /\ polls = 0
    /\ InitControl

\* a step of the work cycle of an agent
FlowStep(a) ==
    \/ ListReady(a)
    \/ FilterReady(a)
    \/ SelectOffered(a)
    \/ Acquire(a)
    \/ Denied(a)
    \/ MarkRunning(a)
    \/ FinishFlow(a)
    \/ ReleaseRead(a)
    \/ ReleaseDelete(a)

NextFlow ==
    \/ \E a \in Agents : FlowStep(a)
    \/ Tick

\* AgentRuntime.run keeps starting work cycles and time passes
SpecFlow ==
    /\ InitFlow
    /\ [][NextFlow]_vars
    /\ \A a \in Agents : WF_vars(FlowStep(a))
    /\ WF_vars(Tick)

-----------------------------------------------------------------------------
(* Properties *)

Range(seq) == {seq[i] : i \in 1..Len(seq)}

\* the stored status of a task, None when the task has no state
StatusOf(tk, id) == IF id \in DOMAIN tk THEN tk[id]["status"] ELSE None

\* agent a takes a step of its work cycle
Steps(a) == pc'[a] # pc[a]

\* C1: acquire_lock returns true exactly when the lock is absent, and then the
\* caller is the stored owner; on a present lock it returns false and leaves
\* the lock as it was.  With the lock being one key holding one owner, of any
\* number of agents calling on an absent lock only the first one wins.
C1_LockExclusivity ==
    [][\A a \in Agents :
         pc[a] = "acquire" /\ Steps(a) =>
            LET id == node[a].id
            IN /\ (pc'[a] = "mark") = (id \notin DOMAIN lock)
               /\ pc'[a] \in {"mark", "denied"}
               /\ pc'[a] = "mark" => lock_owner(lock', id) = a
               /\ pc'[a] = "denied" => lock' = lock]_vars

\* two agents called acquire_lock for the same task: one won, one was denied
C1_Witness ==
    /\ pc["a1"] = "mark"
    /\ pc["a2"] = "denied"
    /\ node["a1"].id = node["a2"].id
    /\ lock_owner(lock, node["a1"].id) = "a1"

\* C2: every state write of a work cycle (the RUNNING write and the outcome
\* write) is made while the writing agent owns the lock of the task.
C2_WritesUnderLock ==
    [][\A a \in Agents :
         pc[a] \in {"mark", "execute"} /\ Steps(a) =>
            lock_owner(lock, node[a].id) = a]_vars

\* C3: no two agents are between their RUNNING write and their outcome write
\* for the same task.
C3_SingleExecutor ==
    \A a, b \in Agents :
        a # b /\ pc[a] = "execute" /\ pc[b] = "execute" => node[a].id # node[b].id

\* the status changes C4 admits
MonotonicChanges ==
    {<<READY, RUNNING>>, <<BLOCKED, READY>>, <<RUNNING, READY>>, <<CLAIMED, READY>>}
    \cup {<<RUNNING, s>> : s \in {DEV_DONE, QA_PASSED, DONE, BLOCKED, FAILED}}

\* C4: a task's status changes only READY->RUNNING, RUNNING->{DEV_DONE,
\* QA_PASSED, DONE, BLOCKED, FAILED}, BLOCKED->READY and RUNNING/CLAIMED->READY;
\* in particular a DEV_DONE or QA_PASSED task is never set RUNNING again.
C4_MonotonicIntent ==
    [][\A id \in DOMAIN task :
         \/ StatusOf(task', id) = StatusOf(task, id)
         \/ <<StatusOf(task, id), StatusOf(task', id)>> \in MonotonicChanges]_vars

\* C5: once a task is DONE or FAILED no step changes its state.
C5_TerminalStatuses ==
    [][\A id \in DOMAIN task :
         StatusOf(task, id) \in {DONE, FAILED} =>
            get_task_state(task', id) = get_task_state(task, id)]_vars

\* a RUNNING or CLAIMED task whose lock is absent or whose lease has run out
IsStale(id) ==
    /\ StatusOf(task, id) \in {RUNNING, CLAIMED}
    /\ \/ id \notin DOMAIN lock
       \/ "lease_expires" \in DOMAIN task[id] /\ task[id]["lease_expires"] <= 0

\* every dependency source of the node has a satisfied status
DepsSatisfied(g, id) ==
    \A dep \in dagDeps[g][id] :
        StatusOf(task, dep) \in {DEV_DONE, QA_PASSED, INTEGRATED, DONE}

\* agent a's step is its list_ready_tasks call
Lists(a) == pc[a] = "idle" /\ pc'[a] = "listed"

\* the stored state is READY with owner and lease_expires null
IsReset(tk, id) ==
    /\ get_task_state(tk, id).status = READY
    /\ get_task_state(tk, id).owner = None
    /\ get_task_state(tk, id).lease_expires = NoLease

\* C6 as stated: list_ready_tasks resets every stale RUNNING or CLAIMED node to
\* READY with owner and lease_expires null and returns its id.
C6_StaleAlwaysListed ==
    [][\A a \in Agents : Lists(a) =>
         \A id \in NodeIds(dagNodes[goal_id(a)]) : IsStale(id) =>
            /\ IsReset(task', id)
            /\ id \in Range(ready_task_ids'[a])]_vars

\* C6: list_ready_tasks resets every stale RUNNING or CLAIMED node to READY
\* with owner and lease_expires null, and returns its id exactly when all the
\* dependency sources of the node have a satisfied status.
C6_StaleRecovery ==
    [][\A a \in Agents : Lists(a) =>
         \A id \in NodeIds(dagNodes[goal_id(a)]) : IsStale(id) =>
            /\ IsReset(task', id)
            /\ (id \in Range(ready_task_ids'[a])) = DepsSatisfied(goal_id(a), id)]_vars

\* a1 listed t1, which was stored RUNNING for a2 with the lock still present
\* and the lease run out: the call reset it to READY and returned it
C6_Witness ==
    /\ pc["a1"] = "listed"
    /\ lock_owner(lock, "t1") = "a2"
    /\ IsReset(task, "t1")
    /\ "t1" \in Range(ready_task_ids["a1"])

\* C7: after write_dag every node of the DAG is stored READY iff it has no
\* incoming edge and BLOCKED otherwise, with owner and lease_expires null.
C7_InitialStates ==
    [][polls' # polls =>
         \A g \in Goals : \A id \in NodeIds(dagNodes'[g]) :
            /\ get_task_state(task', id).status =
                  IF dagDeps'[g][id] = {} THEN READY ELSE BLOCKED
            /\ get_task_state(task', id).owner = None
            /\ get_task_state(task', id).lease_expires = NoLease]_vars

\* the priority and the position in the nodes hash of a node of goal g
PriorityOf(g, id) == get_task_node(dagNodes[g], id).priority
PositionOf(g, id) == CHOOSE i \in 1..Len(dagNodes[g]) : dagNodes[g][i].id = id

\* the ids C8 expects list_ready_tasks to return
ExpectedReady(g) ==
    {id \in NodeIds(dagNodes[g]) :
        /\ \/ IsStale(id)
           \/ StatusOf(task, id) \in {READY, BLOCKED}
        /\ DepsSatisfied(g, id)}

\* C8: list_ready_tasks returns exactly the nodes that after the stale recovery
\* are READY or BLOCKED with all dependency sources satisfied, each once, by
\* descending priority and, among equal priorities, in insertion order; the
\* returned nodes are stored READY, and the state of every task that is
\* neither returned nor stale is left as it was.
C8_ReadyList ==
    [][\A a \in Agents : Lists(a) =>
         LET g == goal_id(a)
             r == ready_task_ids'[a]
         IN /\ Range(r) = ExpectedReady(g)
            /\ Len(r) = Cardinality(ExpectedReady(g))
            /\ \A i, j \in 1..Len(r) : i < j =>
                  \/ PriorityOf(g, r[i]) > PriorityOf(g, r[j])
                  \/ /\ PriorityOf(g, r[i]) = PriorityOf(g, r[j])
                     /\ PositionOf(g, r[i]) < PositionOf(g, r[j])
            /\ \A id \in ExpectedReady(g) :
                  get_task_state(task', id) =
                     IF IsStale(id)
                     THEN [get_task_state(task, id) EXCEPT
                             !.status = READY, !.owner = None, !.lease_expires = NoLease]
                     ELSE [get_task_state(task, id) EXCEPT !.status = READY]
            /\ \A id \in DOMAIN task :
                  id \notin ExpectedReady(g) /\ ~IsStale(id) => task'[id] = task[id]]_vars

\* a1 got a list in which the sort moved the last node of the hash to the
\* front, ahead of two nodes of equal priority that kept their insertion order
C8_Witness ==
    /\ pc["a1"] = "listed"
    /\ ready_task_ids["a1"] = <<"t3", "t1", "t2">>
    /\ PriorityOf("g1", "t3") > PriorityOf("g1", "t1")
    /\ PriorityOf("g1", "t1") = PriorityOf("g1", "t2")
    /\ \A id \in {"t1", "t2", "t3"} : StatusOf(task, id) = READY

\* the status C9 assigns to a phase
PhaseTable(n) ==
    IF "phase" \notin DOMAIN n.metadata THEN DEV_DONE
    ELSE CASE n.metadata["phase"] = "development" -> DEV_DONE
           [] n.metadata["phase"] = "qa" -> QA_PASSED
           [] n.metadata["phase"] = "integration" -> DONE
           [] OTHER -> DONE

\* C9: whenever an agent is executing a claimed task and execute_task returns
\* done (and summarize_task a summary), the state the cycle writes has the
\* status of the phase table, progress = the summary, artifacts = the outputs,
\* and no owner, lease or error.
C9_PhaseTransition ==
    \A a \in Agents : pc[a] = "execute" =>
        \A x \in Executions : ~x.raises /\ x.status = "done" =>
            LET st == record_outcome(a, Store(goal_id(a)), node[a], x)
            IN get_task_state(st.task, node[a].id) =
                  [status |-> PhaseTable(node[a]), owner |-> None,
                   lease_expires |-> NoLease, progress |-> x.summary,
                   artifacts |-> x.outputs, last_error |-> None]

\* a2 has recorded the result of a task of a phase outside the table: DONE
\* with the summary and the outputs
C9_Witness ==
    /\ pc["a2"] = "release"
    /\ MetaGet(node["a2"], "phase", "") = "docs"
    /\ get_task_state(task, node["a2"].id) =
          [status |-> DONE, owner |-> None, lease_expires |-> NoLease,
           progress |-> "summary", artifacts |-> <<"artifact://out">>,
           last_error |-> None]

\* the agent's role differs from the required_role of the node among the nodes
RoleMismatchIn(nodes, a, id) ==
    /\ get_task_node(nodes, id) # NoNode
    /\ MetaGet(get_task_node(nodes, id), "required_role", "") \notin {"", agent_role(a)}

\* the agent's role differs from the task's required_role
RoleMismatch(a, id) == RoleMismatchIn(dagNodes[goal_id(a)], a, id)

\* C10: an agent whose role differs from a task's required_role never owns the
\* task's lock, never gets past the selection with it, and none of its steps
\* moves the task out of READY.
C10_RoleGating ==
    [][\A a \in Agents : Steps(a) =>
         /\ \A id \in DOMAIN lock' :
               lock'[id].owner = a => ~RoleMismatchIn(dagNodes'[goal_id(a)], a, id)
         /\ node'[a] # NoNode =>
               ~RoleMismatchIn(dagNodes'[goal_id(a)], a, node'[a].id)
         /\ \A id \in DOMAIN task :
               StatusOf(task, id) = READY /\ StatusOf(task', id) # READY =>
                  ~RoleMismatch(a, id)]_vars

\* the features-dev agent got the READY task that requires qa-dev in its
\* ready list while the qa-dev agent holds the task that requires no role
C10_Witness ==
    /\ pc["a1"] = "listed"
    /\ "Q" \in Range(ready_task_ids["a1"])
    /\ StatusOf(task, "Q") = READY
    /\ RoleMismatch("a1", "Q")
    /\ lock_owner(lock, "D") = "a2"

-----------------------------------------------------------------------------
(* Task synthesis on failure *)

\* f is the id a synthesized node gets: the base id when it is free among the
\* existing ids, else the base id with the first free suffix
IsFreshFrom(f, base, existing) ==
    \/ base \notin existing /\ f = base
    \/ /\ base \in existing
       /\ \E k \in 1..(Cardinality(existing) + 1) :
             /\ f = base \o "_" \o ToString(k)
             /\ f \notin existing
             /\ \A j \in 1..(k - 1) : (base \o "_" \o ToString(j)) \in existing

\* the executions that are a QA failure on a QA-phase task
QaFailures == {x \in Executions : ~x.raises /\ x.status \in {"failed", "qa_failed"}}

\* the role responsible for fixing the findings of QA task n in review cycle N
ResponsibleRole(a, n, N) ==
    IF N > 3 /\ MetaGet(n, "manager_role", "") # "" THEN n.metadata["manager_role"]
    ELSE IF MetaGet(n, "dev_role", "") # "" THEN n.metadata["dev_role"]
    ELSE agent_role(a)

\* C11: whenever an agent is executing a claimed QA-phase task Q whose
\* review_cycle is N-1 and execute_task returns failed (or qa_failed), the
\* store the cycle leaves has Q's review_cycle = N, exactly one new node, named
\* Q__fix_N or that id with the first free suffix, with phase development and
\* required_role the responsible developer role, in state READY and among Q's
\* dependencies (next to the old ones), and Q is BLOCKED.
C11_QaRemediation ==
    \A a \in Agents :
        pc[a] = "execute" /\ MetaGet(node[a], "phase", "development") = "qa" =>
            \A x \in QaFailures :
                LET g == goal_id(a)
                    Q == node[a]
                    st == record_outcome(a, Store(g), Q, x)
                    N == StrToInt(MetaGet(Q, "review_cycle", "0")) + 1
                    created == NodeIds(st.nodes) \ NodeIds(dagNodes[g])
                IN /\ get_task_node(st.nodes, Q.id).metadata["review_cycle"] = ToString(N)
                   /\ \E f \in created :
                         /\ created = {f}
                         /\ IsFreshFrom(f, Q.id \o "__fix_" \o ToString(N),
                                        NodeIds(dagNodes[g]))
                         /\ get_task_node(st.nodes, f).metadata["phase"] = "development"
                         /\ get_task_node(st.nodes, f).metadata["required_role"] =
                               ResponsibleRole(a, Q, N)
                         /\ get_task_state(st.task, f) = TaskState(READY)
                         /\ st.deps[Q.id] = dagDeps[g][Q.id] \cup {f}
                   /\ StatusOf(st.task, Q.id) = BLOCKED

\* the QA agent has recorded the fourth failed review of T while T__fix_4 was
\* taken: T is BLOCKED in review cycle 4 and waits for the manager's READY
\* T__fix_4_1 (and still for P)
C11_Witness ==
    /\ pc["a2"] = "release"
    /\ node["a2"].id = "T"
    /\ StatusOf(task, "T") = BLOCKED
    /\ MetaGet(get_task_node(dagNodes["g1"], "T"), "review_cycle", "") = "4"
    /\ get_task_node(dagNodes["g1"], "T__fix_4_1") # NoNode
    /\ MetaGet(get_task_node(dagNodes["g1"], "T__fix_4_1"), "required_role", "") = "team-lead"
    /\ StatusOf(task, "T__fix_4_1") = READY
    /\ dagDeps["g1"]["T"] = {"P", "T__fix_4_1"}

\* the error text the failure paths get for an execution: str(exc), or
\* execution.notes or the returned status
FailsWith(x) == IF x.raises THEN x.error ELSE IF x.notes # "" THEN x.notes ELSE x.status

\* the executions that fail: a raised error or a returned failed/blocked status
Failures == {x \in Executions : x.raises \/ x.status \in {"failed", "blocked"}}

\* the failures with a recoverable error: it matches a recoverable pattern, or
\* assess_recovery answers recoverable with enough confidence
RecoverableFailures ==
    {x \in Failures :
        \/ FailsWith(x) = "timed out"
        \/ ~x.assess.raises /\ x.assess.recoverable
                            /\ x.assess.confidence >= MIN_RECOVERY_CONFIDENCE}

\* recovery_attempts of the node, 0 when absent
AttemptsOf(n) == StrToInt(MetaGet(n, "recovery_attempts", "0"))

\* C13: whenever an agent is executing a claimed non-QA task T whose
\* recovery_attempts is k < 3 and the execution fails with a recoverable error,
\* the store the cycle leaves has T's recovery_attempts = k+1, exactly one new
\* node, named T__recover_(k+1) or that id with the first free suffix, READY,
\* with phase development and required_role = T's required_role (the agent's
\* role when T has none), among T's dependencies, and T is BLOCKED with a
\* progress text that names the new node.
C13_RecoveryTask ==
    \A a \in Agents :
        /\ pc[a] = "execute"
        /\ MetaGet(node[a], "phase", "development") # "qa"
        /\ AttemptsOf(node[a]) < 3
        => \A x \in RecoverableFailures :
              LET g == goal_id(a)
                  T == node[a]
                  st == record_outcome(a, Store(g), T, x)
                  k == AttemptsOf(T)
                  created == NodeIds(st.nodes) \ NodeIds(dagNodes[g])
              IN /\ MetaGet(get_task_node(st.nodes, T.id), "recovery_attempts", "") =
                       ToString(k + 1)
                 /\ \E f \in created :
                       /\ created = {f}
                       /\ IsFreshFrom(f, T.id \o "__recover_" \o ToString(k + 1),
                                      NodeIds(dagNodes[g]))
                       /\ get_task_state(st.task, f) = TaskState(READY)
                       /\ get_task_node(st.nodes, f).metadata["phase"] = "development"
                       /\ get_task_node(st.nodes, f).metadata["required_role"] =
                             (IF "required_role" \in DOMAIN T.metadata
                              THEN T.metadata["required_role"] ELSE agent_role(a))
                       /\ st.deps[T.id] = dagDeps[g][T.id] \cup {f}
                       /\ StatusOf(st.task, T.id) = BLOCKED
                       /\ get_task_state(st.task, T.id).progress =
                             "Recoverable failure; created remediation task " \o f

\* the features-dev agent has recorded the third recoverable failure of the
\* integration task T, which requires no role, while T__recover_3 was taken:
\* T is BLOCKED on the new READY T__recover_3_1 that requires features-dev
C13_Witness ==
    /\ pc["a1"] = "release"
    /\ node["a1"].id = "T"
    /\ MetaGet(node["a1"], "phase", "") = "integration"
    /\ StatusOf(task, "T") = BLOCKED
    /\ MetaGet(get_task_node(dagNodes["g1"], "T"), "recovery_attempts", "") = "3"
    /\ get_task_node(dagNodes["g1"], "T__recover_3_1") # NoNode
    /\ MetaGet(get_task_node(dagNodes["g1"], "T__recover_3_1"), "required_role", "")
          = "features-dev"
    /\ StatusOf(task, "T__recover_3_1") = READY
    /\ dagDeps["g1"]["T"] = {"P", "T__recover_3_1"}

\* what the recovery cap leaves of a failure of the task of agent a: FAILED
\* with the error as last_error, no new node, no new dependency, and the same
\* whatever assess_recovery would have answered
CappedOutcome(a, x) ==
    LET g == goal_id(a)
        T == node[a]
        st == record_outcome(a, Store(g), T, x)
    IN /\ get_task_state(st.task, T.id) =
             [TaskState(FAILED) EXCEPT !.last_error = FailsWith(x)]
       /\ NodeIds(st.nodes) = NodeIds(dagNodes[g])
       /\ st.deps = dagDeps[g]
       /\ \A y \in Failures :
             [y EXCEPT !.assess = x.assess] = x =>
                record_outcome(a, Store(g), T, y) = st

\* C14 as stated: whenever an agent is executing a claimed task whose
\* recovery_attempts is 3 or more and the execution fails (a raised error or a
\* returned failed/blocked status), the cycle marks it FAILED with last_error
\* set, creates no node, adds no dependency and does not consult
\* assess_recovery.
C14_RecoveryCapAnyTask ==
    \A a \in Agents :
        pc[a] = "execute" /\ AttemptsOf(node[a]) >= 3 =>
            \A x \in Failures : CappedOutcome(a, x)

\* C14, amended: the same for every failure that is not a failed status
\* returned for a QA-phase task (that one is a QA failure and gets a
\* remediation node whatever the recovery attempts).
C14_RecoveryCap ==
    \A a \in Agents :
        pc[a] = "execute" /\ AttemptsOf(node[a]) >= 3 =>
            \A x \in Failures :
                (x.raises \/ x.status = "blocked"
                 \/ MetaGet(node[a], "phase", "development") # "qa")
                => CappedOutcome(a, x)

\* an agent has recorded a failure of T after three recovery attempts, with an
\* error that matches a recoverable pattern: T is FAILED and the DAG still
\* holds P and T only
C14_Witness ==
    /\ \E a \in Agents : pc[a] = "release" /\ node[a].id = "T" /\ AttemptsOf(node[a]) = 3
    /\ get_task_state(task, "T") = [TaskState(FAILED) EXCEPT !.last_error = "timed out"]
    /\ NodeIds(dagNodes["g1"]) = {"P", "T"}
    /\ dagDeps["g1"]["T"] = {"P"}

\* f is a remediation node that a QA failure on q created
IsRemediationOf(nodes, f, q) ==
    /\ get_task_node(nodes, f) # NoNode
    /\ MetaGet(get_task_node(nodes, f), "parent_task_id", "") = q
    /\ "recovery_for" \notin DOMAIN get_task_node(nodes, f).metadata

\* no agent takes the lock of, or executes, a QA task that has a remediation
\* node whose status is not satisfied
QaWaitsForFix ==
    \A a \in Agents : Steps(a) /\ pc'[a] \in {"mark", "execute"} =>
        \A f \in NodeIds(dagNodes[goal_id(a)]) :
            IsRemediationOf(dagNodes[goal_id(a)], f, node'[a].id) =>
                is_satisfied(StatusOf(task, f))

\* list_ready_tasks returns, and writes READY, every BLOCKED QA task that has
\* a DEV_DONE remediation node and whose dependencies are all satisfied
QaPromoted ==
    \A a \in Agents : pc[a] = "idle" /\ pc'[a] = "listed" =>
        \A q \in NodeIds(dagNodes[goal_id(a)]) :
            /\ StatusOf(task, q) = BLOCKED
            /\ \E f \in dagDeps[goal_id(a)][q] :
                  /\ IsRemediationOf(dagNodes[goal_id(a)], f, q)
                  /\ StatusOf(task, f) = DEV_DONE
            /\ DepsSatisfied(goal_id(a), q)
            => /\ q \in Range(ready_task_ids'[a])
               /\ StatusOf(task', q) = READY

\* C12: after a QA failure on Q created the remediation node F, no agent claims
\* or executes Q while F's status is outside {DEV_DONE, QA_PASSED, INTEGRATED,
\* DONE}; and once F is DEV_DONE and Q's other dependencies are satisfied, the
\* next list_ready_tasks returns Q and writes it READY.
C12_QaBlockedUntilFix == [][QaWaitsForFix /\ QaPromoted]_vars

\* recovery_attempts of task T as the node map holds it, 0 when absent
StoredAttempts(nodes, T) ==
    IF get_task_node(nodes, T) = NoNode THEN 0 ELSE AttemptsOf(get_task_node(nodes, T))

\* the recovery nodes of task T in the node map
RecoveryNodes(nodes, T) ==
    {i \in 1..Len(nodes) : MetaGet(nodes[i], "recovery_for", "") = T}

\* C15: no step lowers the recovery_attempts of a task, raises it above 3, or
\* adds a recovery node for a task that already has 3 of them.
C15_RecoveryBound ==
    [][\A g \in Goals : \A T \in NodeIds(dagNodes[g]) :
          /\ StoredAttempts(dagNodes'[g], T) >= StoredAttempts(dagNodes[g], T)
          /\ StoredAttempts(dagNodes'[g], T) # StoredAttempts(dagNodes[g], T)
                => StoredAttempts(dagNodes'[g], T) <= 3
          /\ Cardinality(RecoveryNodes(dagNodes'[g], T))
                > Cardinality(RecoveryNodes(dagNodes[g], T))
                => Cardinality(RecoveryNodes(dagNodes'[g], T)) <= 3]_vars

\* every dependency id recorded in the dependency map of the goal names a node
\* of the goal's node map
EdgesHaveNodes(g) ==
    \A id \in DOMAIN dagDeps[g] : dagDeps[g][id] \subseteq NodeIds(dagNodes[g])

\* the ids that id depends on, directly or through at most n further steps
DependsOn(g, id, n) ==
    LET RECURSIVE Up(_, _)
        Up(ids, k) ==
            IF k = 0 THEN ids
            ELSE Up(ids \cup UNION {dagDeps[g][d] : d \in ids \cap DOMAIN dagDeps[g]}, k - 1)
    IN Up(IF id \in DOMAIN dagDeps[g] THEN dagDeps[g][id] ELSE {}, n)

\* no node depends on itself, directly or transitively
Acyclic(g) ==
    \A id \in DOMAIN dagDeps[g] : id \notin DependsOn(g, id, Cardinality(DOMAIN dagDeps[g]))

\* C20: in every reachable store state each recorded dependency id names a
\* node of the goal's node map and the dependency graph is acyclic.
C20_DagIntegrity == \A g \in Goals : EdgesHaveNodes(g) /\ Acyclic(g)

-----------------------------------------------------------------------------
(* The agent loop *)

\* the step is the loop iteration of agent a past the heartbeat poll: the
\* heartbeat is renewed or the work cycle starts
LoopStep(a) ==
    /\ pc[a] = "idle"
    /\ pc'[a] # "idle" \/ agent_heartbeat'[a] > agent_heartbeat[a]

C17_PauseGate ==
    [][\A a \in Agents :
          /\ paused[a] <=> last_toggle[a] = "PAUSE"
          /\ paused'[a] <=> last_toggle'[a] = "PAUSE"
          /\ paused[a] => pc[a] = "idle" /\ pc'[a] = "idle"
          /\ paused[a] /\ LoopStep(a) => task' = task /\ lock' = lock
          /\ paused[a] /\ ~paused'[a] => last_toggle'[a] = "RESUME"]_vars

\* a1 was paused by its first poll and is still paused after the second; it
\* has published a heartbeat, and D is READY and not locked
C17_Witness ==
    /\ paused["a1"]
    /\ polls = 2
    /\ last_toggle["a2"] = None
    /\ agent_heartbeat["a1"] = LeaseTTL
    /\ pc["a1"] = "idle"
    /\ StatusOf(task, "D") = READY
    /\ lock = << >>

\* the positions of _run_cycle before acquire_lock and after release_lock
OutsideLock == {"idle", "listed", "select", "select_sleep", "acquire", "denied"}

\* C18: an agent that is not between acquire_lock and the end of release_lock
\* owns no lock: every work cycle that acquired one ends with it released,
\* whether it recorded a success, a QA failure, a recovery or a failure, or an
\* exception left it.
C18_LockReleased ==
    \A a \in Agents : pc[a] \in OutsideLock =>
        \A id \in DOMAIN lock : lock[id].owner # a

\* a2 is back at the top of the loop after the QA failure on T, and T is not
\* locked
C18_Witness ==
    /\ pc["a2"] = "idle"
    /\ node["a2"] = NoNode
    /\ StatusOf(task, "T") = BLOCKED
    /\ get_task_node(dagNodes["g1"], "T__fix_1") # NoNode
    /\ "T" \notin DOMAIN lock

\* C19: release_lock(t, a) run as one step leaves the lock of t present iff it
\* was present with an owner different from a, leaves it as it was in that case,
\* and touches no other lock.
C19_ReleaseLock ==
    \A a \in Agents : \A t \in DOMAIN task \cup {"no-such-task"} :
        LET released == release_lock(lock, t, a)
        IN /\ t \in DOMAIN released <=> (t \in DOMAIN lock /\ lock[t].owner # a)
           /\ \A k \in DOMAIN released : k \in DOMAIN lock /\ released[k] = lock[k]
           /\ DOMAIN lock \ {t} \subseteq DOMAIN released

\* a2 applied DROP-TASK D while a1 executes D: D is READY without owner, its
\* lease is still there, and a1 still owns the lock
C19_Witness ==
    /\ pc["a1"] = "execute"
    /\ lock_owner(lock, "D") = "a1"
    /\ StatusOf(task, "D") = READY
    /\ "lease_expires" \in DOMAIN task["D"]
    /\ "owner" \notin DOMAIN task["D"]

-----------------------------------------------------------------------------
\* the dependency edges stored for goal g, as (dependency, dependant) pairs
StoredEdges(deps) ==
    {e \in (UNION {deps[j] : j \in DOMAIN deps}) \X DOMAIN deps : e[1] \in deps[e[2]]}

\* C21: nodes are never deleted: a node id and the dependency edges present
\* in a goal's DAG are present after every step of the agents (recording,
\* task synthesis, ELEVATE)
C21_NodesNeverDeleted ==
    [][\A g \in Goals :
          /\ NodeIds(dagNodes[g]) \subseteq NodeIds(dagNodes'[g])
          /\ StoredEdges(dagDeps[g]) \subseteq StoredEdges(dagDeps'[g])]_vars

\* the nodes of two DAG listings agree except for the priority of task_id
SameButPriority(before, after, task_id) ==
    /\ Len(after) = Len(before)
    /\ \A i \in 1..Len(before) :
          IF before[i].id = task_id
          THEN after[i] = [before[i] EXCEPT !.priority = after[i].priority]
          ELSE after[i] = before[i]

\* C22: applying ELEVATE id p changes nothing except the priority of node
\* id: the other nodes, the edges and every task's state record are the same
\* after the directive as before it
C22_ElevateFrame ==
    [][\A a \in Agents :
          ApplyDirectives(a) =>
             /\ task' = task
             /\ dagDeps' = dagDeps
             /\ \E task_id \in NodeIds(dagNodes[goal_id(a)]) \cup {"no-such-task"} :
                   SameButPriority(dagNodes[goal_id(a)], dagNodes'[goal_id(a)], task_id)]_vars

\* C23: DROP-TASK id applied by agent a to a task with a state record leaves
\* it READY with owner null and the lock of id not held by a; a lock of id
\* held by another agent stays as it is, and an id without a state record
\* gets none. Nothing else in the task and lock maps changes.
C23_DropTask ==
    \A a \in Agents : \A id \in DOMAIN task \cup {"no-such-task"} :
        LET dropped == drop_task(a, task, lock, id)
            after == get_task_state(dropped.task, id)
        IN /\ id \in DOMAIN task =>
                /\ after.status = READY
                /\ after.owner = None
                /\ lock_owner(dropped.lock, id) # a
           /\ (id \in DOMAIN lock /\ lock[id].owner # a) =>
                (id \in DOMAIN dropped.lock /\ dropped.lock[id] = lock[id])
           /\ id \notin DOMAIN task => dropped.task = task /\ dropped.lock = lock
           /\ \A k \in DOMAIN task \ {id} :
                k \in DOMAIN dropped.task /\ dropped.task[k] = task[k]
           /\ \A k \in DOMAIN lock \ {id} :
                k \in DOMAIN dropped.lock /\ dropped.lock[k] = lock[k]

\* a1 applied PAUSE and DROP-TASK Q while a2 executes Q: Q is READY without
\* owner, and a2 still owns the lock
C23_Witness ==
    /\ paused["a1"]
    /\ pc["a2"] = "execute"
    /\ node["a2"] # NoNode
    /\ node["a2"].id = "Q"
    /\ StatusOf(task, "Q") = READY
    /\ "owner" \notin DOMAIN task["Q"]
    /\ lock_owner(lock, "Q") = "a2"

\* C24: the goal-wide spending-cap deadline never regresses: while a stored
\* deadline is still in the future, no call of set_goal_spending_cap_until,
\* by whichever agent, replaces it by an earlier one or removes it (the
\* passing of time alone brings it closer)
C24_CapNeverRegresses ==
    [][Tick \/ \A g \in Goals :
                  spending_cap_until[g] > 0 =>
                      spending_cap_until'[g] >= spending_cap_until[g]]_vars

\* the run loop of agent a has ended: run() returned or an error left it
LoopEnded(a) == pc[a] \in {"stopped", "raised"}

\* after stop() an agent at the top of the loop starts no work cycle
NoCycleAfterStop ==
    \A a \in Agents : (~active[a] /\ pc[a] = "idle") => pc'[a] \in {"idle", "stopped"}

\* C25: whenever the run loop of an agent has ended (stop(), the cycle limit,
\* or an error that escaped a cycle), its final memory snapshot is stored and
\* its registration and heartbeat records are removed; and after stop() the
\* loop starts no further work cycle
C25_ShutdownAlwaysRuns ==
    [][/\ \A a \in Agents :
             LoopEnded(a)' =>
                /\ memory_snapshot'[a]
                /\ ~registration'[a]
                /\ agent_heartbeat'[a] = 0
       /\ NoCycleAfterStop]_vars

\* the spawn_agent calls of this step, as (name, call) pairs
NewSpawns ==
    {<<n, spawn_calls'[n][Len(spawn_calls'[n])]>> :
        n \in {m \in DOMAIN spawn_calls' :
                 m \notin DOMAIN spawn_calls \/ Len(spawn_calls'[m]) > Len(spawn_calls[m])}}

\* the PID the hierarchy makes the parent of agent n: the coordinator's for the
\* owner, the remembered PID of the owner for the team lead, and that of the
\* team lead (else of the owner) for every other agent
RememberedParent(n) ==
    LET of(m, otherwise) == IF m \in DOMAIN spawned' THEN spawned'[m] ELSE otherwise
    IN IF n = "owner" THEN OrchestratorPid
       ELSE IF n = "team-lead" THEN of("owner", OrchestratorPid)
       ELSE of("team-lead", of("owner", OrchestratorPid))

\* every spawn of a step is given the remembered PID of its parent
ParentIsRemembered == \A s \in NewSpawns : s[2].parent_pid = RememberedParent(s[1])

\* C26: over any sequence of reconcile cycles and instruction files the
\* supervisor's spawn is invoked at most once per agent name, and every spawn
\* is given the remembered PID of its parent
C26_SpawnIdempotent ==
    [][/\ \A n \in DOMAIN spawn_calls' : Len(spawn_calls'[n]) <= 1
       /\ ParentIsRemembered]_vars

\* the roles of the declared agents of one category
RolesIn(agents, category) ==
    {effective_role(agents[i]) : i \in {j \in 1..Len(agents) :
                                          classify_agent(agents[j]) = category}}

\* the DAG has a node with this id, phase and one of the roles
HasNode(dag, id, phase, roles) ==
    \E i \in 1..Len(dag.nodes) :
        /\ dag.nodes[i].id = id
        /\ MetaGet(dag.nodes[i], "phase", "") = phase
        /\ MetaGet(dag.nodes[i], "required_role", "") \in roles

\* no node of the DAG reaches itself along its edges
AcyclicDag(dag) ==
    \A id \in NodeIds(dag.nodes) : id \notin Reach(dag.edges, id, Len(dag.nodes))

\* what the expansion owes the oracle's node N
ExpandedAs(N, original, expanded, agents) ==
    LET builders == IF RolesIn(agents, "builder") # {} THEN RolesIn(agents, "builder")
                    ELSE {effective_role(agents[1])}
        reviewers == RolesIn(agents, "reviewer")
        managers == RolesIn(agents, "manager")
        qa_id == N.id \o "__qa"
        integration_id == N.id \o "__integrate"
    IN /\ HasNode(expanded, N.id, "development",
                  IF "required_role" \in DOMAIN N.metadata THEN {N.metadata["required_role"]}
                  ELSE builders)
       /\ reviewers # {} =>
             /\ HasNode(expanded, qa_id, "qa", reviewers)
             /\ <<N.id, qa_id>> \in expanded.edges
       /\ managers # {} =>
             /\ HasNode(expanded, integration_id, "integration", managers)
             /\ <<IF reviewers # {} THEN qa_id ELSE N.id, integration_id>> \in expanded.edges

\* C27: role-workflow expansion gives every development node N of the oracle's
\* DAG the node N (phase development, a builder role unless the oracle named
\* one), with a reviewer the node
\* N__qa and the edge N -> N__qa, with a manager the node N__integrate and the
\* edge to it from N__qa (from N without reviewer); the original edges are
\* kept, the ids of the expanded DAG are pairwise distinct, and it is acyclic
\* whenever the original is
C27_RoleWorkflow ==
    planned_dag # NoDag =>
        /\ \A i \in 1..Len(oracle_dag.nodes) :
              MetaGet(oracle_dag.nodes[i], "phase", "development") = "development" =>
                  ExpandedAs(oracle_dag.nodes[i], oracle_dag, planned_dag, goal_agents)
        /\ oracle_dag.edges \subseteq planned_dag.edges
        /\ Cardinality(NodeIds(planned_dag.nodes)) = Len(planned_dag.nodes)
        /\ AcyclicDag(oracle_dag) => AcyclicDag(planned_dag)

\* a provider text that yields a JSON object with exactly the required keys,
\* bare or between prose
MatchesShape(text) == text.value = "object" /\ DOMAIN text.object = required_keys

\* a step in which _invoke hands a provider text to the attempt
Consumes(text) == ProviderReturns(text) /\ OracleFrame

\* C28 as stated: a single oracle call starts the provider at most 3 times.
C28_AtMostThreeLaunches == launches <= MaxAttempts

\* where a JSON call stands: at most 3 attempts; a returned payload is the
\* object of the last provider text, which has the required shape; ValueError
\* is raised in the third attempt on a text without it; a later attempt runs
\* with the repair prompt of the original prompt and the text before
JsonCallState ==
    /\ json_attempt <= MaxAttempts
    /\ oracle_pc = "returned" => MatchesShape(last_raw) /\ json_result = last_raw.object
    /\ oracle_pc = "ValueError" => json_attempt = MaxAttempts /\ ~MatchesShape(last_raw)
    /\ oracle_pc \in {"invoke", "sleep"} =>
          IF json_attempt = 1 THEN current_prompt = OriginalPrompt
          ELSE /\ ~MatchesShape(last_raw)
               /\ current_prompt.original_prompt = OriginalPrompt
               /\ current_prompt.bad_output = last_raw

\* what a consumed provider text does to the call
JsonCallStep ==
    \A text \in Responses :
        Consumes(text) =>
            IF MatchesShape(text) THEN oracle_pc' = "returned" /\ json_result' = text.object
            ELSE IF json_attempt < MaxAttempts
            THEN oracle_pc' = "invoke" /\ json_attempt' = json_attempt + 1
            ELSE oracle_pc' = "ValueError"

\* C28, amended: a single oracle call hands at most 3 provider texts to the
\* parser (provider processes that end in a spending cap are started again
\* without counting); it returns the object of the first text that yields a
\* JSON object with exactly the required keys, retries with a repair prompt
\* built from the original prompt and the bad output after an empty,
\* unparsable, non-object, missing-key or extra-key text, and raises
\* ValueError after the third such text.
C28_JsonContract == [](JsonCallState) /\ [][JsonCallStep /\ json_attempt' >= json_attempt]_vars

\* the third attempt returned a payload after a spending-cap relaunch
C28_Witness ==
    /\ oracle_pc = "returned"
    /\ json_attempt = MaxAttempts
    /\ launches > MaxAttempts
    /\ json_result = Object(required_keys)

\* the clock time a reset text names, in half seconds since midnight
NamedTime(text) ==
    LET h == IF text.hour = 12 THEN 0 ELSE text.hour
        m == IF text.minute = << >> THEN 0 ELSE text.minute[1]
    IN ((IF text.period \in {"pm", "PM"} THEN h + 12 ELSE h) * 3600 + m * 60) * 2

WellFormedReset(text) ==
    /\ text # NoResetTime
    /\ text.hour \in 1..12
    /\ text.minute = << >> \/ text.minute[1] \in 0..59

\* C29: for a reset time h[:mm] am/pm with h in 1..12 and mm in 0..59 the
\* wait is the time from now to the next local occurrence of that clock time
\* (positive, at most one day, the next day when today's occurrence is not
\* after now, 12am hour 0 and 12pm hour 12); an hour outside 1..12 or a text
\* without a reset time gives no wait.
C29_SecondsUntilReset ==
    local_now # NoClock =>
        LET now == HalfSeconds(local_now.hour, local_now.minute, local_now.second,
                               local_now.half)
        IN IF WellFormedReset(cap_message)
           THEN /\ wait_seconds # << >>
                /\ wait_seconds[1] \in 1..HalfSecondsPerDay
                /\ (now + wait_seconds[1]) % HalfSecondsPerDay = NamedTime(cap_message)
                /\ NamedTime(cap_message) <= now
                      <=> wait_seconds[1] = NamedTime(cap_message) + HalfSecondsPerDay - now
           ELSE cap_message = NoResetTime \/ cap_message.hour \notin 1..12
                   => wait_seconds = << >>

\* the cap is reported at 8 p.m. sharp with a reset at 8 PM: a full day
C29_Witness ==
    /\ cap_message = ResetTime(8, << >>, "PM")
    /\ local_now = Clock(20, 0, 0, 0)
    /\ wait_seconds = <<HalfSecondsPerDay>>

\* len(text) <= 600: of the texts of the model only LongText is longer
AtMost600(text) == text # LongText

\* C30: every stored task state has last_error null or of at most 600
\* characters, on the BLOCKED path and on the FAILED paths, whatever the
\* length of the error text.
C30_LastErrorBounded ==
    \A id \in DOMAIN task :
        get_task_state(task, id).last_error = None
            \/ AtMost600(get_task_state(task, id).last_error)

\* the recoverable path alone: a BLOCKED task carries at most 600 characters
BlockedLastErrorBounded ==
    \A id \in DOMAIN task :
        get_task_state(task, id).status = BLOCKED =>
            \/ get_task_state(task, id).last_error = None
            \/ AtMost600(get_task_state(task, id).last_error)

\* the success status of the phase of the stored node
SuccessStatus(g, id) ==
    phase_status(MetaGet(get_task_node(dagNodes[g], id), "phase", "development"))

\* agent m holds the task between its RUNNING write and the end of its release
Executes(m, id) ==
    pc[m] \in {"mark", "execute", "release", "release_del"} /\ node[m] # NoNode /\ node[m].id = id

\* a listing that finds T stale resets it and returns it, and the cycle of an
\* agent that was offered T ends with T at its success status, unless another
\* live agent has taken T meanwhile
StaleTaskCycle ==
    \A a \in Agents :
        /\ Lists(a) /\ IsStale("T") => IsReset(task', "T") /\ "T" \in Range(ready_task_ids'[a])
        /\ pc[a] # "idle" /\ pc'[a] = "idle" =>
              \/ pc[a] = "listed" /\ "T" \notin Range(ready_task_ids[a])
              \/ StatusOf(task', "T") = SuccessStatus("g1", "T")
              \/ \E m \in Agents \ {a} : Executes(m, "T")

\* C31: a task left RUNNING by an agent that stopped does not stay RUNNING:
\* once its lock or its lease has run out the next list_ready_tasks call
\* resets it to READY, and a live agent whose oracle returns done brings it to
\* the success status of its phase within its work cycle.
C31_StaleTaskCompletes ==
    /\ [][StaleTaskCycle]_vars
    /\ StatusOf(task, "T") = RUNNING ~> StatusOf(task, "T") = SuccessStatus("g1", "T")

\* a2 listed T, which a1 had left RUNNING with the lease run out, took it and
\* recorded the success of a QA task
C31_Witness ==
    /\ pc["a2"] = "release"
    /\ node["a2"].id = "T"
    /\ get_task_state(task, "T").status = QA_PASSED
    /\ pc["a1"] = "idle"

\* the step is a call of recover_stale_tasks by the coordinator
Recovers(g) == g \notin resume_reported /\ g \in resume_reported'

\* the ids whose stored state the step changes
ChangedIds == {id \in DOMAIN task : task'[id] # task[id]}

\* what a call of recover_stale_tasks changes and returns
RecoverFrame(g) ==
    /\ DOMAIN task' = DOMAIN task
    /\ \A id \in DOMAIN task :
          IF IsStale(id) THEN IsReset(task', id) ELSE task'[id] = task[id]
    /\ lock' = lock
    /\ dagNodes' = dagNodes
    /\ dagDeps' = dagDeps
    /\ Range(recover_stale_tasks(g, task, lock).recovered) = ChangedIds
    /\ Len(recover_stale_tasks(g, task, lock).recovered) = Cardinality(ChangedIds)

\* C32: recover_stale_tasks changes the state of a task only if its status is
\* RUNNING or CLAIMED and its lock is absent or its lease has run out; a locked
\* task with a running lease and every task of another status keep their
\* state; no lock and no node is modified; it returns exactly the ids it reset.
C32_RecoverFrame == [][\A g \in Goals : Recovers(g) => RecoverFrame(g)]_vars

\* the recovery has run: t1 is READY without owner and lease, t2 is still
\* RUNNING under its lock with its lease ahead, t3 kept its FAILED state
C32_Witness ==
    /\ resume_reported = {"g1"}
    /\ IsReset(task, "t1")
    /\ StatusOf(task, "t2") = RUNNING
    /\ lock_owner(lock, "t2") = "a2"
    /\ get_task_state(task, "t2").lease_expires > 0
    /\ get_task_state(task, "t3").status = FAILED
    /\ get_task_state(task, "t3").last_error = "boom"

\* agent a's step is a command of its release_lock call
Releases(a) == pc[a] \in {"release", "release_del"} /\ Steps(a)

\* C33: release_lock(t, a) never removes a lock whose current owner is another
\* agent, whatever happens between its read of the owner and its delete (expiry
\* of a's lock, a successful acquire_lock of the other agent).
C33_ReleaseKeepsOthersLock ==
    [][\A a \in Agents : Releases(a) =>
          \A id \in DOMAIN lock :
              lock[id].owner # a => id \in DOMAIN lock' /\ lock'[id] = lock[id]]_vars

\* the step is a reconcile cycle of the coordinator
Reconciles == reconciles' # reconciles

\* C34: when the goal has a stored DAG, a reconcile cycle asks the oracle for no
\* DAG and writes none: nodes, edges and locks stay as they are, and a task
\* state changes only by the reset of a stale RUNNING or CLAIMED task to READY,
\* in the one cycle that enters the goal into the coordinator's set of resumed
\* goals, which never shrinks.
C34_ReconcileKeepsDag ==
    [][Reconciles /\ dagNodes["g1"] # << >> =>
          /\ dagNodes' = dagNodes
          /\ dagDeps' = dagDeps
          /\ lock' = lock
          /\ oracle_dag' = oracle_dag
          /\ planned_dag' = planned_dag
          /\ resume_reported \subseteq resume_reported'
          /\ DOMAIN task' = DOMAIN task
          /\ \A id \in DOMAIN task :
                task'[id] # task[id] =>
                    /\ IsStale(id)
                    /\ IsReset(task', id)
                    /\ "g1" \notin resume_reported]_vars

\* the first cycle found T under its lock and left it; the lock and the lease
\* have run out since, and the second cycle has not touched T
C34_Witness ==
    /\ reconciles = 2
    /\ resume_reported = {"g1"}
    /\ StatusOf(task, "T") = RUNNING
    /\ "T" \notin DOMAIN lock
    /\ oracle_dag = NoDag
    /\ Len(dagNodes["g1"]) = 1

\* the status agent a's cycle writes for its task when the oracle's execution
\* is x
WrittenStatus(a, x) ==
    StatusOf(record_outcome(a, Store(goal_id(a)), node[a], x).task, node[a].id)

\* C35: a work cycle writes a satisfied status (DEV_DONE, QA_PASSED or DONE)
\* only when execute_task returned status done: failed, blocked and every
\* status outside {done, failed, blocked} never lead to a satisfied status.
C35_SatisfiedOnlyOnDone ==
    \A a \in Agents : pc[a] = "execute" =>
        \A x \in Executions :
            ~x.raises /\ x.status # "done" =>
                WrittenStatus(a, x) \notin {DEV_DONE, QA_PASSED, DONE}

\* the part of it that concerns failed and blocked, and raised errors
FailedNeverSatisfied ==
    \A a \in Agents : pc[a] = "execute" =>
        \A x \in Executions :
            x.raises \/ x.status \in {"failed", "blocked"} =>
                WrittenStatus(a, x) \notin {DEV_DONE, QA_PASSED, DONE}

\* answers of assess_recovery, those at the confidence threshold included
ThresholdAssessments ==
    Assessments \cup [raises : {FALSE}, recoverable : BOOLEAN, confidence : {74, 75, 100}]

\* the store after _record_failure_or_recovery of agent a's task
AfterFailure(a, error, assess) ==
    record_failure_or_recovery(a, Store(goal_id(a)), node[a], error, assess)

\* the task is BLOCKED and one node, which depends on nothing yet is new, was
\* appended to the DAG
RecoveryCreated(a, st) ==
    /\ StatusOf(st.task, node[a].id) = BLOCKED
    /\ Len(st.nodes) = Len(dagNodes[goal_id(a)]) + 1
    /\ st.nodes[Len(st.nodes)].id \notin NodeIds(dagNodes[goal_id(a)])
    /\ st.nodes[Len(st.nodes)].id \in st.deps[node[a].id]

\* the task is FAILED and the DAG is as it was
MarkedFailed(a, st) ==
    /\ StatusOf(st.task, node[a].id) = FAILED
    /\ st.nodes = dagNodes[goal_id(a)]
    /\ st.deps = dagDeps[goal_id(a)]

TaskUntouched(id) ==
    /\ id \in DOMAIN task => id \in DOMAIN task' /\ task'[id] = task[id]
    /\ id \in DOMAIN lock => id \in DOMAIN lock' /\ lock'[id].owner = lock[id].owner

\* C37: goals are independent: what is done for one goal (write_dag, the work
\* cycles of its agents) changes neither the task state nor the lock owner of a
\* node of another goal, also when the DAGs of the two goals use the same ids.
C37_GoalsIndependent ==
    [][/\ dagNodes'["g2"] # dagNodes["g2"] =>
             \A id \in NodeIds(dagNodes["g1"]) : TaskUntouched(id)
       /\ (\E a \in Agents : Steps(a)) =>
             \A id \in NodeIds(dagNodes["g2"]) : TaskUntouched(id)]_vars

\* the part that holds: planning g2 leaves the nodes and edges of g1 alone
OtherGoalDagUntouched ==
    [][dagNodes'["g2"] # dagNodes["g2"] =>
          dagNodes'["g1"] = dagNodes["g1"] /\ dagDeps'["g1"] = dagDeps["g1"]]_vars

\* C38: every stored node has a priority >= 0 in every reachable state, after
\* ELEVATE directives with any numeric argument, negative ones included.
C38_PriorityNonNegative ==
    \A g \in Goals : \A i \in 1..Len(dagNodes[g]) : dagNodes[g][i].priority >= 0

\* C39: a task's owner and lease_expires are non-null only while its status is
\* RUNNING or CLAIMED: every write of another status (work-cycle outcome,
\* BLOCKED -> READY promotion, stale recovery, DROP-TASK, write_dag) leaves
\* both null.
C39_OwnerOnlyWhileRunning ==
    \A id \in DOMAIN task :
        get_task_state(task, id).status \notin {RUNNING, CLAIMED} =>
            /\ get_task_state(task, id).owner = None
            /\ get_task_state(task, id).lease_expires = NoLease

\* the RUNNING write of a work cycle stores the writing agent as owner and a
\* lease of lease_ttl from the time of the write
RunningWriteOwned ==
    [][\A a \in Agents : pc[a] = "mark" /\ Steps(a) =>
          /\ get_task_state(task', node[a].id).status = RUNNING
          /\ get_task_state(task', node[a].id).owner = a
          /\ get_task_state(task', node[a].id).lease_expires = LeaseTTL]_vars

\* every task of the goal, synthesized ones included, has a satisfied status
\* and the integration task is DONE
AllSatisfied ==
    /\ \A id \in NodeIds(dagNodes["g1"]) :
          StatusOf(task, id) \in {DEV_DONE, QA_PASSED, INTEGRATED, DONE}
    /\ StatusOf(task, "I") = DONE

\* no task is BLOCKED while all its dependencies are satisfied
NoneStuck ==
    \A id \in NodeIds(dagNodes["g1"]) :
        ~(StatusOf(task, id) = BLOCKED /\ DepsSatisfied("g1", id))

\* C40: with one live agent per required role, fair scheduling of the agents'
\* cycles and an oracle that selects an offered task and returns done after
\* finitely many QA failures, the goal D -> Q -> I comes to a state where every
\* task, each remediation node included, has a satisfied status and I is DONE;
\* no task whose dependencies are all satisfied stays BLOCKED forever.
C40_GoalCompletes == <>AllSatisfied /\ []<>NoneStuck

\* the QA review failed once, the remediation task was done, and the goal is
\* complete
C40_Witness ==
    /\ AllSatisfied
    /\ StatusOf(task, "Q__fix_1") = DEV_DONE
    /\ StatusOf(task, "Q") = QA_PASSED
    /\ \A a \in Agents : pc[a] = "idle"

====
